---- MODULE Spec2Model ----
(***************************************************************************)
(* The medical record text pipeline: OCR text normalisation, rule based    *)
(* fact extraction, date resolution, document classification               *)
(* (src/src/services/medicalExtractionService.ts) and the evidence locator *)
(* (src/src/services/llmService.ts, StudentMediAnalyzer.tsx).              *)
(*                                                                         *)
(* A JavaScript string is modelled as a sequence of one-character strings, *)
(* and every regular expression of the source as a sequence of items that  *)
(* a backtracking matcher with the semantics of the JavaScript engine      *)
(* (leftmost match, greedy quantifiers, ordered alternatives, capture      *)
(* groups) interprets.                                                     *)
(***************************************************************************)
EXTENDS Integers, Sequences, FiniteSets, TLC

VARIABLES
    done,       \* the calls that have returned
    raw,        \* the OCR text handed to extractMedicalData, the text handed to extractDate
    data,       \* the ExtractedMedicalData returned by extractMedicalData(raw)
    dateOut,    \* the date returned by extractDate(raw)
    normalized, \* a text under normalisation
    passes,     \* how many times the normaliser has run on it
    records,    \* MedicalContext.records, scanned by llmService
    reports,    \* the reports StudentMediAnalyzer fetched
    query,      \* the user's question
    answer,     \* the model's answer
    evidence,   \* the result of findRelevantEvidence(records, query, answer)
    evidenceUI, \* the result of StudentMediAnalyzer's findEvidence(query, answer)
    stageOut,   \* the results of the service's functions called on raw one at a time
    processedFiles, \* UploadPage's processing queue
    context,    \* the result of buildMedicalContext(records)
    contextUI,  \* the result of StudentMediAnalyzer's buildContext()
    calls,      \* the calls of the service's functions so far: input and output
    ocrRun,     \* one call of performOCR: its position, the worker, the outcome
    llmRun,     \* one call of queryMedicalBot: its position, the requests sent, the outcome
    chat,       \* a chat view: the messages, the loading flag, the requests pending
    inflight    \* UploadPage: the OCR runs of the dropped files, pending or settled

vars == <<done, raw, data, dateOut, normalized, passes, records, reports, query, answer,
          evidence, evidenceUI, stageOut, processedFiles, context, contextUI,
          calls, ocrRun, llmRun, chat, inflight>>

----------------------------------------------------------------------------
(* Characters and strings *)

LowerSeq == <<"a", "b", "c", "d", "e", "f", "g", "h", "i", "j", "k", "l", "m", "n", "o", "p", "q", "r", "s", "t", "u", "v", "w", "x", "y", "z">>
UpperSeq == <<"A", "B", "C", "D", "E", "F", "G", "H", "I", "J", "K", "L", "M", "N", "O", "P", "Q", "R", "S", "T", "U", "V", "W", "X", "Y", "Z">>
LowerSet == {LowerSeq[i] : i \in 1..26}
UpperSet == {UpperSeq[i] : i \in 1..26}
Letter == LowerSet \cup UpperSet
Digit == {"0", "1", "2", "3", "4", "5", "6", "7", "8", "9"}
\* \s of the regular expressions, and what String.trim removes
Space == {" ", "\n", "\t"}
\* \w of the regular expressions
WordChar == Letter \cup Digit \cup {"_"}

LowerOf == [c \in UpperSet |-> LowerSeq[CHOOSE i \in 1..26 : UpperSeq[i] = c]]
UpperOf == [c \in LowerSet |-> UpperSeq[CHOOSE i \in 1..26 : LowerSeq[i] = c]]
LowerChar(c) == IF c \in UpperSet THEN LowerOf[c] ELSE c
UpperChar(c) == IF c \in LowerSet THEN UpperOf[c] ELSE c

\* String.prototype.toLowerCase / toUpperCase
toLowerCase(s) == [i \in 1..Len(s) |-> LowerChar(s[i])]
toUpperCase(s) == [i \in 1..Len(s) |-> UpperChar(s[i])]

\* s.substring(from - 1, to) in 1-based inclusive positions
Sub(s, from, to) == IF from > to THEN <<>> ELSE SubSeq(s, from, to)

\* s.substring(0, n)
Prefix(s, n) == Sub(s, 1, IF n < Len(s) THEN n ELSE Len(s))

RECURSIVE Concat(_)
\* the concatenation of a sequence of strings
Concat(ss) == IF Len(ss) = 0 THEN <<>> ELSE Head(ss) \o Concat(Tail(ss))

\* String.prototype.includes
includes(s, t) ==
    \E p \in 1..(Len(s) - Len(t) + 1) : \A k \in 1..Len(t) : s[p + k - 1] = t[k]

RECURSIVE TrimStart(_, _)
TrimStart(s, i) == IF i <= Len(s) /\ s[i] \in Space THEN TrimStart(s, i + 1) ELSE i
RECURSIVE TrimEnd(_, _)
TrimEnd(s, j) == IF j >= 1 /\ s[j] \in Space THEN TrimEnd(s, j - 1) ELSE j

\* String.prototype.trim
trim(s) == Sub(s, TrimStart(s, 1), TrimEnd(s, Len(s)))

DigitSeq == <<"0", "1", "2", "3", "4", "5", "6", "7", "8", "9">>

RECURSIVE Decimal(_)
\* String(n) for a natural number n
Decimal(n) ==
    IF n < 10 THEN <<DigitSeq[n + 1]>> ELSE Decimal(n \div 10) \o <<DigitSeq[(n % 10) + 1]>>

RECURSIVE Repeat(_, _)
\* String.prototype.repeat
Repeat(s, n) == IF n = 0 THEN <<>> ELSE s \o Repeat(s, n - 1)

\* t occurs in s as a contiguous run of characters
IsSubstring(t, s) ==
    \E p \in 1..(Len(s) - Len(t) + 1) : \A k \in 1..Len(t) : s[p + k - 1] = t[k]

RECURSIVE padStart(_, _)
\* String.prototype.padStart(n, '0')
padStart(s, n) == IF Len(s) >= n THEN s ELSE padStart(<<"0">> \o s, n)

----------------------------------------------------------------------------
(* Regular expressions.  An expression is a sequence of items:             *)
(*   set    a character class with a greedy quantifier {lo,hi}             *)
(*   lit    a literal string                                               *)
(*   alt    ordered alternatives, each an expression                       *)
(*   open / close   the parentheses of capture group n                     *)
(*   wb     \b      ahead / nahead   (?=[cs]) and (?=[^cs])                *)
(*   behind (?<=[cs])      eos   $                                         *)

\* the capture groups of an expression are numbered 1..MaxGroups
MaxGroups == 3

Item(t, cs, lo, hi, alts, n) ==
    [t |-> t, cs |-> cs, lo |-> lo, hi |-> hi, alts |-> alts, n |-> n]

Rep(cs, lo, hi) == <<Item("set", cs, lo, hi, <<>>, 0)>>
One(cs) == Rep(cs, 1, 1)
Maybe(cs) == Rep(cs, 0, 1)
\* hi = -1: no upper limit
Star(cs) == Rep(cs, 0, -1)
Plus(cs) == Rep(cs, 1, -1)
\* a literal string
Lit(str) == <<Item("lit", {}, 0, 0, str, 0)>>
Alt(alts) == <<Item("alt", {}, 0, 0, alts, 0)>>
\* (?: r )?
Opt(r) == Alt(<<r, <<>>>>)
\* ( r ), capture group n
Cap(n, r) == <<Item("open", {}, 0, 0, <<>>, n)>> \o r \o <<Item("close", {}, 0, 0, <<>>, n)>>
WB == <<Item("wb", {}, 0, 0, <<>>, 0)>>
Ahead(cs) == <<Item("ahead", cs, 0, 0, <<>>, 0)>>
NotAhead(cs) == <<Item("nahead", cs, 0, 0, <<>>, 0)>>
Behind(cs) == <<Item("behind", cs, 0, 0, <<>>, 0)>>
Eos == <<Item("eos", {}, 0, 0, <<>>, 0)>>

\* an alternation of literal strings
Words(strs) == Alt([k \in 1..Len(strs) |-> Lit(strs[k])])

\* ci: the i flag
InClass(c, cs, ci) ==
    c \in cs \/ (ci /\ (LowerChar(c) \in cs \/ UpperChar(c) \in cs))

CharEq(a, b, ci) == a = b \/ (ci /\ LowerChar(a) = LowerChar(b))

\* the literal str stands at position i of s
LitAt(str, s, i, ci) ==
    /\ i + Len(str) - 1 <= Len(s)
    /\ \A k \in 1..Len(str) : CharEq(s[i + k - 1], str[k], ci)

IsWordAt(s, i) == i >= 1 /\ i <= Len(s) /\ s[i] \in WordChar

NoGroups == [n \in 1..MaxGroups |-> <<0, 0>>]
NoMatch == [ok |-> FALSE, start |-> 0, end |-> 0, caps |-> NoGroups]

RECURSIVE Run(_, _, _, _, _)
\* how many characters from position i on are in the class, at most hi (hi < 0: no limit)
Run(cs, s, i, hi, ci) ==
    IF hi = 0 \/ i > Len(s) \/ ~InClass(s[i], cs, ci) THEN 0
    ELSE 1 + Run(cs, s, i + 1, hi - 1, ci)

RECURSIVE Match(_, _, _, _, _)
RECURSIVE TryCounts(_, _, _, _, _, _, _)
RECURSIVE TryAlts(_, _, _, _, _, _, _)

\* Match re at position i of s: the result the backtracking engine finds first.
\* end is the position after the match; caps[n] = <<from, to>>, <<0, 0>> when
\* group n did not take part.
Match(re, s, i, caps, ci) ==
    IF Len(re) = 0 THEN [ok |-> TRUE, start |-> i, end |-> i, caps |-> caps]
    ELSE LET h == Head(re)
             rest == Tail(re)
         IN CASE h.t = "set" ->
                   TryCounts(rest, s, i, Run(h.cs, s, i, h.hi, ci), h.lo, caps, ci)
              [] h.t = "lit" ->
                   IF LitAt(h.alts, s, i, ci)
                   THEN Match(rest, s, i + Len(h.alts), caps, ci) ELSE NoMatch
              [] h.t = "alt" -> TryAlts(h.alts, 1, rest, s, i, caps, ci)
              [] h.t = "open" ->
                   Match(rest, s, i, [caps EXCEPT ![h.n] = <<i, 0>>], ci)
              [] h.t = "close" ->
                   Match(rest, s, i, [caps EXCEPT ![h.n] = <<caps[h.n][1], i - 1>>], ci)
              [] h.t = "wb" ->
                   IF IsWordAt(s, i - 1) # IsWordAt(s, i)
                   THEN Match(rest, s, i, caps, ci) ELSE NoMatch
              [] h.t = "ahead" ->
                   IF i <= Len(s) /\ InClass(s[i], h.cs, ci)
                   THEN Match(rest, s, i, caps, ci) ELSE NoMatch
              [] h.t = "nahead" ->
                   IF i <= Len(s) /\ ~InClass(s[i], h.cs, ci)
                   THEN Match(rest, s, i, caps, ci) ELSE NoMatch
              [] h.t = "behind" ->
                   IF i >= 2 /\ InClass(s[i - 1], h.cs, ci)
                   THEN Match(rest, s, i, caps, ci) ELSE NoMatch
              [] h.t = "eos" ->
                   IF i = Len(s) + 1 THEN Match(rest, s, i, caps, ci) ELSE NoMatch

\* greedy: the longest repetition first, then shorter ones down to lo
TryCounts(rest, s, i, n, lo, caps, ci) ==
    IF n < lo THEN NoMatch
    ELSE LET r == Match(rest, s, i + n, caps, ci)
         IN IF r.ok THEN r ELSE TryCounts(rest, s, i, n - 1, lo, caps, ci)

\* the alternatives in the order written
TryAlts(alts, k, rest, s, i, caps, ci) ==
    IF k > Len(alts) THEN NoMatch
    ELSE LET r == Match(alts[k] \o rest, s, i, caps, ci)
         IN IF r.ok THEN r ELSE TryAlts(alts, k + 1, rest, s, i, caps, ci)

\* RegExp.prototype.exec with lastIndex = from - 1: the leftmost match at or after
\* position from
Exec(re, ci, s, from) ==
    LET starts == {p \in from..(Len(s) + 1) : Match(re, s, p, NoGroups, ci).ok}
    IN IF starts = {} THEN NoMatch
       ELSE LET first == CHOOSE p \in starts : \A q \in starts : p <= q
            IN [Match(re, s, first, NoGroups, ci) EXCEPT !.start = first]

\* String.prototype.match with a regular expression without the g flag
match(s, re, ci) == Exec(re, ci, s, 1)

\* match[n]; undefined and the empty string, both falsy and used by the source
\* only through || or ?., are both <<>>
Group(s, m, n) ==
    IF n > MaxGroups \/ m.caps[n][1] = 0 THEN <<>> ELSE Sub(s, m.caps[n][1], m.caps[n][2])

\* match[0]
Whole(s, m) == Sub(s, m.start, m.end - 1)

\* a || b on strings
Or(a, b) == IF Len(a) > 0 THEN a ELSE b

\* A replacement string is a sequence of parts: $n is [g |-> n], text is
\* [g |-> 0, lit |-> text]
Ref(n) == <<[g |-> n, lit |-> <<>>]>>
Text(str) == <<[g |-> 0, lit |-> str]>>

RECURSIVE Expand(_, _, _)
Expand(tmpl, s, m) ==
    IF Len(tmpl) = 0 THEN <<>>
    ELSE (IF Head(tmpl).g = 0 THEN Head(tmpl).lit ELSE Group(s, m, Head(tmpl).g))
         \o Expand(Tail(tmpl), s, m)

RECURSIVE ReplaceFrom(_, _, _, _, _)
ReplaceFrom(s, re, ci, tmpl, pos) ==
    LET m == Exec(re, ci, s, pos)
    IN IF ~m.ok THEN Sub(s, pos, Len(s))
       ELSE Sub(s, pos, m.start - 1) \o Expand(tmpl, s, m) \o
            (IF m.end > m.start THEN ReplaceFrom(s, re, ci, tmpl, m.end)
             ELSE IF m.start > Len(s) THEN <<>>
             ELSE <<s[m.start]>> \o ReplaceFrom(s, re, ci, tmpl, m.start + 1))

\* String.prototype.replace with a regular expression with the g flag
replace(s, re, ci, tmpl) == ReplaceFrom(s, re, ci, tmpl, 1)

----------------------------------------------------------------------------
(* Text Normalizer *)

ABBREVIATIONS == <<
    <<<<"h", "b">>, <<"H", "e", "m", "o", "g", "l", "o", "b", "i", "n">>>>,
    <<<<"h", "g", "b">>, <<"H", "e", "m", "o", "g", "l", "o", "b", "i", "n">>>>,
    <<<<"b", "p">>, <<"B", "l", "o", "o", "d", " ", "P", "r", "e", "s", "s", "u", "r", "e">>>>,
    <<<<"f", "b", "s">>, <<"F", "a", "s", "t", "i", "n", "g", " ", "B", "l", "o", "o", "d", " ", "S", "u", "g", "a", "r">>>>,
    <<<<"r", "b", "s">>, <<"R", "a", "n", "d", "o", "m", " ", "B", "l", "o", "o", "d", " ", "S", "u", "g", "a", "r">>>>,
    <<<<"p", "p", "b", "s">>, <<"P", "o", "s", "t", " ", "P", "r", "a", "n", "d", "i", "a", "l", " ", "B", "l", "o", "o", "d", " ", "S", "u", "g", "a", "r">>>>,
    <<<<"w", "b", "c">>, <<"W", "h", "i", "t", "e", " ", "B", "l", "o", "o", "d", " ", "C", "e", "l", "l", " ", "C", "o", "u", "n", "t">>>>,
    <<<<"r", "b", "c">>, <<"R", "e", "d", " ", "B", "l", "o", "o", "d", " ", "C", "e", "l", "l", " ", "C", "o", "u", "n", "t">>>>,
    <<<<"p", "l", "t">>, <<"P", "l", "a", "t", "e", "l", "e", "t", " ", "C", "o", "u", "n", "t">>>>,
    <<<<"e", "s", "r">>, <<"E", "r", "y", "t", "h", "r", "o", "c", "y", "t", "e", " ", "S", "e", "d", "i", "m", "e", "n", "t", "a", "t", "i", "o", "n", " ", "R", "a", "t", "e">>>>,
    <<<<"h", "b", "a", "1", "c">>, <<"G", "l", "y", "c", "a", "t", "e", "d", " ", "H", "e", "m", "o", "g", "l", "o", "b", "i", "n">>>>,
    <<<<"l", "d", "l">>, <<"L", "o", "w", " ", "D", "e", "n", "s", "i", "t", "y", " ", "L", "i", "p", "o", "p", "r", "o", "t", "e", "i", "n">>>>,
    <<<<"h", "d", "l">>, <<"H", "i", "g", "h", " ", "D", "e", "n", "s", "i", "t", "y", " ", "L", "i", "p", "o", "p", "r", "o", "t", "e", "i", "n">>>>,
    <<<<"t", "s", "h">>, <<"T", "h", "y", "r", "o", "i", "d", " ", "S", "t", "i", "m", "u", "l", "a", "t", "i", "n", "g", " ", "H", "o", "r", "m", "o", "n", "e">>>>,
    <<<<"t", "3">>, <<"T", "r", "i", "i", "o", "d", "o", "t", "h", "y", "r", "o", "n", "i", "n", "e">>>>,
    <<<<"t", "4">>, <<"T", "h", "y", "r", "o", "x", "i", "n", "e">>>>,
    <<<<"s", "g", "p", "t">>, <<"S", "e", "r", "u", "m", " ", "G", "l", "u", "t", "a", "m", "i", "c", " ", "P", "y", "r", "u", "v", "i", "c", " ", "T", "r", "a", "n", "s", "a", "m", "i", "n", "a", "s", "e">>>>,
    <<<<"s", "g", "o", "t">>, <<"S", "e", "r", "u", "m", " ", "G", "l", "u", "t", "a", "m", "i", "c", " ", "O", "x", "a", "l", "o", "a", "c", "e", "t", "i", "c", " ", "T", "r", "a", "n", "s", "a", "m", "i", "n", "a", "s", "e">>>>,
    <<<<"a", "l", "t">>, <<"A", "l", "a", "n", "i", "n", "e", " ", "A", "m", "i", "n", "o", "t", "r", "a", "n", "s", "f", "e", "r", "a", "s", "e">>>>,
    <<<<"a", "s", "t">>, <<"A", "s", "p", "a", "r", "t", "a", "t", "e", " ", "A", "m", "i", "n", "o", "t", "r", "a", "n", "s", "f", "e", "r", "a", "s", "e">>>>,
    <<<<"b", "u", "n">>, <<"B", "l", "o", "o", "d", " ", "U", "r", "e", "a", " ", "N", "i", "t", "r", "o", "g", "e", "n">>>>,
    <<<<"m", "c", "v">>, <<"M", "e", "a", "n", " ", "C", "o", "r", "p", "u", "s", "c", "u", "l", "a", "r", " ", "V", "o", "l", "u", "m", "e">>>>,
    <<<<"m", "c", "h">>, <<"M", "e", "a", "n", " ", "C", "o", "r", "p", "u", "s", "c", "u", "l", "a", "r", " ", "H", "e", "m", "o", "g", "l", "o", "b", "i", "n">>>>,
    <<<<"m", "c", "h", "c">>, <<"M", "e", "a", "n", " ", "C", "o", "r", "p", "u", "s", "c", "u", "l", "a", "r", " ", "H", "e", "m", "o", "g", "l", "o", "b", "i", "n", " ", "C", "o", "n", "c", "e", "n", "t", "r", "a", "t", "i", "o", "n">>>>,
    <<<<"r", "d", "w">>, <<"R", "e", "d", " ", "C", "e", "l", "l", " ", "D", "i", "s", "t", "r", "i", "b", "u", "t", "i", "o", "n", " ", "W", "i", "d", "t", "h">>>>,
    <<<<"m", "p", "v">>, <<"M", "e", "a", "n", " ", "P", "l", "a", "t", "e", "l", "e", "t", " ", "V", "o", "l", "u", "m", "e">>>>,
    <<<<"p", "c", "v">>, <<"P", "a", "c", "k", "e", "d", " ", "C", "e", "l", "l", " ", "V", "o", "l", "u", "m", "e">>>>,
    <<<<"h", "c", "t">>, <<"H", "e", "m", "a", "t", "o", "c", "r", "i", "t">>>>,
    <<<<"c", "r", "p">>, <<"C", "-", "R", "e", "a", "c", "t", "i", "v", "e", " ", "P", "r", "o", "t", "e", "i", "n">>>>,
    <<<<"b", "n", "p">>, <<"B", "-", "t", "y", "p", "e", " ", "N", "a", "t", "r", "i", "u", "r", "e", "t", "i", "c", " ", "P", "e", "p", "t", "i", "d", "e">>>>,
    <<<<"p", "s", "a">>, <<"P", "r", "o", "s", "t", "a", "t", "e", " ", "S", "p", "e", "c", "i", "f", "i", "c", " ", "A", "n", "t", "i", "g", "e", "n">>>>,
    <<<<"e", "c", "g">>, <<"E", "l", "e", "c", "t", "r", "o", "c", "a", "r", "d", "i", "o", "g", "r", "a", "m">>>>,
    <<<<"e", "k", "g">>, <<"E", "l", "e", "c", "t", "r", "o", "c", "a", "r", "d", "i", "o", "g", "r", "a", "m">>>>,
    <<<<"c", "t">>, <<"C", "o", "m", "p", "u", "t", "e", "d", " ", "T", "o", "m", "o", "g", "r", "a", "p", "h", "y">>>>,
    <<<<"m", "r", "i">>, <<"M", "a", "g", "n", "e", "t", "i", "c", " ", "R", "e", "s", "o", "n", "a", "n", "c", "e", " ", "I", "m", "a", "g", "i", "n", "g">>>>,
    <<<<"u", "s", "g">>, <<"U", "l", "t", "r", "a", "s", "o", "n", "o", "g", "r", "a", "p", "h", "y">>>> >>

UNIT_NORMALIZATIONS == <<
    <<<<"m", "g", "%">>, <<"m", "g", "/", "d", "L">>>>,
    <<<<"g", "m", "%">>, <<"g", "/", "d", "L">>>>,
    <<<<"g", "m", "/", "d", "l">>, <<"g", "/", "d", "L">>>>,
    <<<<"m", "g", "/", "d", "l">>, <<"m", "g", "/", "d", "L">>>>,
    <<<<"m", "m", "o", "l", "/", "l">>, <<"m", "m", "o", "l", "/", "L">>>>,
    <<<<"i", "u", "/", "l">>, <<"I", "U", "/", "L">>>>,
    <<<<"u", "/", "l">>, <<"U", "/", "L">>>>,
    <<<<"c", "e", "l", "l", "s", "/", "c", "u", "m", "m">>, <<"c", "e", "l", "l", "s", "/", "c", "u", ".", "m", "m">>>>,
    <<<<"c", "e", "l", "l", "s", "/", "u", "l">>, <<"c", "e", "l", "l", "s", "/", "µ", "L">>>>,
    <<<<"/", "c", "u", "m", "m">>, <<"/", "c", "u", ".", "m", "m">>>>,
    <<<<"m", "m", "/", "h", "r">>, <<"m", "m", "/", "h", "r">>>>,
    <<<<"s", "e", "c">>, <<"s", "e", "c", "o", "n", "d", "s">>>>,
    <<<<"s", "e", "c", "s">>, <<"s", "e", "c", "o", "n", "d", "s">>>> >>

\* \d+\.?\d*
Number == Plus(Digit) \o Maybe({"."}) \o Star(Digit)
\* [:\s]*
ColonSpaces == Star({":"} \cup Space)
\* \s*
Spaces == Star(Space)

\* /\b(blood\s*(?:group|type)[:\s]*)[°0](\s*(?:positive|negative|\+|-))/gi
BloodGroupZeroRe ==
    WB \o Cap(1, Lit(<<"b", "l", "o", "o", "d">>) \o Spaces \o Words(<<<<"g", "r", "o", "u", "p">>, <<"t", "y", "p", "e">>>>) \o ColonSpaces)
       \o One({"°", "0"})
       \o Cap(2, Spaces \o Words(<<<<"p", "o", "s", "i", "t", "i", "v", "e">>, <<"n", "e", "g", "a", "t", "i", "v", "e">>, <<"+">>, <<"-">>>>))
\* /\b[°0]\s*(?:positive|\+)\b/gi
ZeroPositiveRe == WB \o One({"°", "0"}) \o Spaces \o Words(<<<<"p", "o", "s", "i", "t", "i", "v", "e">>, <<"+">>>>) \o WB
\* /\b[°0]\s*(?:negative|-)\b/gi
ZeroNegativeRe == WB \o One({"°", "0"}) \o Spaces \o Words(<<<<"n", "e", "g", "a", "t", "i", "v", "e">>, <<"-">>>>) \o WB
\* /\bl\s*(?=\d)/gi
EllBeforeDigitRe == WB \o One({"l"}) \o Spaces \o Ahead(Digit)
\* /(?<=\d)\s*[oO](?=\s|$|\D)/g
OhAfterDigitRe ==
    Behind(Digit) \o Spaces \o One({"o", "O"}) \o Alt(<<Ahead(Space), Eos, NotAhead(Digit)>>)
\* /\brh\s*(?:factor)?\s*[:\s]*(?:pos|positive|\+)/gi
RhPositiveRe ==
    WB \o Lit(<<"r", "h">>) \o Spaces \o Opt(Lit(<<"f", "a", "c", "t", "o", "r">>)) \o Spaces \o ColonSpaces
       \o Words(<<<<"p", "o", "s">>, <<"p", "o", "s", "i", "t", "i", "v", "e">>, <<"+">>>>)
\* /\brh\s*(?:factor)?\s*[:\s]*(?:neg|negative|-)/gi
RhNegativeRe ==
    WB \o Lit(<<"r", "h">>) \o Spaces \o Opt(Lit(<<"f", "a", "c", "t", "o", "r">>)) \o Spaces \o ColonSpaces
       \o Words(<<<<"n", "e", "g">>, <<"n", "e", "g", "a", "t", "i", "v", "e">>, <<"-">>>>)
\* /(\d+\.?\d*)\s*[°º]\s*[fF]/g
FahrenheitRe == Cap(1, Number) \o Spaces \o One({"°", "º"}) \o Spaces \o One({"f", "F"})
\* /(\d+\.?\d*)\s*[°º]\s*[cC]/g
CelsiusRe == Cap(1, Number) \o Spaces \o One({"°", "º"}) \o Spaces \o One({"c", "C"})
\* /hem[o0]gl[o0]bin/gi
HemoglobinRe ==
    Lit(<<"h", "e", "m">>) \o One({"o", "0"}) \o Lit(<<"g", "l">>) \o One({"o", "0"}) \o Lit(<<"b", "i", "n">>)
\* /plat[e3]l[e3]ts?/gi
PlateletsRe ==
    Lit(<<"p", "l", "a", "t">>) \o One({"e", "3"}) \o Lit(<<"l">>) \o One({"e", "3"}) \o Lit(<<"t">>) \o Maybe({"s"})
\* /gl[u0]c[o0]se/gi
GlucoseRe == Lit(<<"g", "l">>) \o One({"u", "0"}) \o Lit(<<"c">>) \o One({"o", "0"}) \o Lit(<<"s", "e">>)
\* /ch[o0]lester[o0]l/gi
CholesterolRe ==
    Lit(<<"c", "h">>) \o One({"o", "0"}) \o Lit(<<"l", "e", "s", "t", "e", "r">>) \o One({"o", "0"}) \o Lit(<<"l">>)

\* the replace calls of correctOCRErrors in the order written:
\* <<expression, i flag, replacement>>
OCR_CORRECTIONS == <<
    <<BloodGroupZeroRe, TRUE, Ref(1) \o Text(<<"O">>) \o Ref(2)>>,
    <<ZeroPositiveRe, TRUE, Text(<<"O", " ", "P", "o", "s", "i", "t", "i", "v", "e">>)>>,
    <<ZeroNegativeRe, TRUE, Text(<<"O", " ", "N", "e", "g", "a", "t", "i", "v", "e">>)>>,
    <<EllBeforeDigitRe, TRUE, Text(<<"1">>)>>,
    <<OhAfterDigitRe, FALSE, Text(<<"0">>)>>,
    <<RhPositiveRe, TRUE, Text(<<"R", "h", " ", "P", "o", "s", "i", "t", "i", "v", "e">>)>>,
    <<RhNegativeRe, TRUE, Text(<<"R", "h", " ", "N", "e", "g", "a", "t", "i", "v", "e">>)>>,
    <<FahrenheitRe, FALSE, Ref(1) \o Text(<<"°", "F">>)>>,
    <<CelsiusRe, FALSE, Ref(1) \o Text(<<"°", "C">>)>>,
    <<HemoglobinRe, TRUE, Text(<<"H", "e", "m", "o", "g", "l", "o", "b", "i", "n">>)>>,
    <<PlateletsRe, TRUE, Text(<<"P", "l", "a", "t", "e", "l", "e", "t", "s">>)>>,
    <<GlucoseRe, TRUE, Text(<<"G", "l", "u", "c", "o", "s", "e">>)>>,
    <<CholesterolRe, TRUE, Text(<<"C", "h", "o", "l", "e", "s", "t", "e", "r", "o", "l">>)>> >>

RECURSIVE ReplaceEach(_, _, _)
\* text = text.replace(...) for the entries k.. of table: each entry is
\* <<expression, i flag, replacement>> (an empty text has nothing to replace)
ReplaceEach(text, table, k) ==
    IF k > Len(table) \/ Len(text) = 0 THEN text
    ELSE ReplaceEach(replace(text, table[k][1], table[k][2], table[k][3]), table, k + 1)

\* Correct common OCR errors in medical context
correctOCRErrors(text) == ReplaceEach(text, OCR_CORRECTIONS, 1)

\* AbbreviationRules without the word boundaries, as the unit rules are built
AbbreviationRulesAnywhere ==
    [k \in 1..Len(ABBREVIATIONS) |->
        <<Lit(ABBREVIATIONS[k][1]), TRUE, Text(ABBREVIATIONS[k][2])>>]

\* new RegExp(`\\b${abbr}\\b`, 'gi') and its replacement, for every entry
AbbreviationRules ==
    [k \in 1..Len(ABBREVIATIONS) |->
        <<WB \o Lit(ABBREVIATIONS[k][1]) \o WB, TRUE, Text(ABBREVIATIONS[k][2])>>]

\* Expand medical abbreviations
expandAbbreviations(text) == ReplaceEach(text, AbbreviationRules, 1)

\* new RegExp(variant.replace(/[.*+?^${}()|[\]\\]/g, '\\$&'), 'gi'): the escaped
\* variant is a literal; and its replacement, for every entry
UnitRules ==
    [k \in 1..Len(UNIT_NORMALIZATIONS) |->
        <<Lit(UNIT_NORMALIZATIONS[k][1]), TRUE, Text(UNIT_NORMALIZATIONS[k][2])>>]

\* Normalize units in text
normalizeUnits(text) == ReplaceEach(text, UnitRules, 1)

\* Steps 1-3 of extractMedicalData
normalize(rawText) == normalizeUnits(expandAbbreviations(correctOCRErrors(rawText)))

----------------------------------------------------------------------------
(* Date Resolver *)

\* null
Null == <<"null">>

\* [\/\-\.]
DateSep == {"/", "-", "."}
\* (?:jan|feb|mar|apr|may|jun|jul|aug|sep|oct|nov|dec)
MonthRe ==
    Words(<<<<"j", "a", "n">>, <<"f", "e", "b">>, <<"m", "a", "r">>, <<"a", "p", "r">>, <<"m", "a", "y">>, <<"j", "u", "n">>,
            <<"j", "u", "l">>, <<"a", "u", "g">>, <<"s", "e", "p">>, <<"o", "c", "t">>, <<"n", "o", "v">>, <<"d", "e", "c">>>>)

\* the patterns of extractDate: <<expression, i flag>>
DatePatterns == <<
    \* /(\d{1,2})[\/\-\.](\d{1,2})[\/\-\.](\d{4})/
    <<Cap(1, Rep(Digit, 1, 2)) \o One(DateSep) \o Cap(2, Rep(Digit, 1, 2)) \o One(DateSep)
        \o Cap(3, Rep(Digit, 4, 4)), FALSE>>,
    \* /(\d{4})[\/\-\.](\d{1,2})[\/\-\.](\d{1,2})/
    <<Cap(1, Rep(Digit, 4, 4)) \o One(DateSep) \o Cap(2, Rep(Digit, 1, 2)) \o One(DateSep)
        \o Cap(3, Rep(Digit, 1, 2)), FALSE>>,
    \* /(\d{1,2})\s*(?:jan|...|dec)[a-z]*\s*(\d{4})/i
    <<Cap(1, Rep(Digit, 1, 2)) \o Spaces \o MonthRe \o Star(LowerSet) \o Spaces
        \o Cap(2, Rep(Digit, 4, 4)), TRUE>>,
    \* /(?:jan|...|dec)[a-z]*\s*(\d{1,2}),?\s*(\d{4})/i
    <<MonthRe \o Star(LowerSet) \o Spaces \o Cap(1, Rep(Digit, 1, 2)) \o Maybe({","})
        \o Spaces \o Cap(2, Rep(Digit, 4, 4)), TRUE>> >>

\* pattern.source.includes('jan|feb'): the two month-name patterns
IsMonthNamePattern(k) == k \in {3, 4}

monthMap(key) ==
    CASE key = <<"j", "a", "n">> -> <<"0", "1">> [] key = <<"f", "e", "b">> -> <<"0", "2">> [] key = <<"m", "a", "r">> -> <<"0", "3">>
      [] key = <<"a", "p", "r">> -> <<"0", "4">> [] key = <<"m", "a", "y">> -> <<"0", "5">> [] key = <<"j", "u", "n">> -> <<"0", "6">>
      [] key = <<"j", "u", "l">> -> <<"0", "7">> [] key = <<"a", "u", "g">> -> <<"0", "8">> [] key = <<"s", "e", "p">> -> <<"0", "9">>
      [] key = <<"o", "c", "t">> -> <<"1", "0">> [] key = <<"n", "o", "v">> -> <<"1", "1">> [] key = <<"d", "e", "c">> -> <<"1", "2">>

RECURSIVE DateFrom(_, _)
\* the loop over the patterns from pattern k on
DateFrom(text, k) ==
    IF k > Len(DatePatterns) THEN Null
    ELSE LET m == match(text, DatePatterns[k][1], DatePatterns[k][2])
         IN IF ~m.ok THEN DateFrom(text, k + 1)
            ELSE IF IsMonthNamePattern(k)
            THEN LET monthMatch == match(text, MonthRe, TRUE)
                 IN IF monthMatch.ok
                    THEN LET month == monthMap(Prefix(toLowerCase(Whole(text, monthMatch)), 3))
                             day == padStart(Group(text, m, 1), 2)
                             year == Or(Group(text, m, 2), Group(text, m, 3))
                         IN year \o <<"-">> \o month \o <<"-">> \o day
                    ELSE DateFrom(text, k + 1)
            ELSE IF Len(Group(text, m, 1)) = 4
            THEN Group(text, m, 1) \o <<"-">> \o padStart(Group(text, m, 2), 2)
                    \o <<"-">> \o padStart(Group(text, m, 3), 2)
            ELSE Group(text, m, 3) \o <<"-">> \o padStart(Group(text, m, 2), 2)
                    \o <<"-">> \o padStart(Group(text, m, 1), 2)

\* Extract date from text and normalize to ISO format
extractDate(text) == DateFrom(text, 1)

----------------------------------------------------------------------------
(* Fact Extractor *)

\* Fact that marks every fact 'high'
FactAlwaysHigh(type, name, value, unit, confidence, reason) ==
    [type |-> type, name |-> name, value |-> value, unit |-> unit,
     confidence |-> "high", interpretation_reason |-> reason]

Fact(type, name, value, unit, confidence, reason) ==
    [type |-> type, name |-> name, value |-> value, unit |-> unit,
     confidence |-> confidence, interpretation_reason |-> reason]

\* [AaBbOo0°]
ABOClass == {"A", "a", "B", "b", "O", "o", "0", "°"}
\* blood\s*(?:group|type)[:\s]*
BloodGroupWords == Lit(<<"b", "l", "o", "o", "d">>) \o Spaces \o Words(<<<<"g", "r", "o", "u", "p">>, <<"t", "y", "p", "e">>>>) \o ColonSpaces

\* the patterns of extractBloodGroup: <<expression, i flag>>
BloodGroupPatterns == <<
    \* /blood\s*(?:group|type)[:\s]*([AaBbOo0°])\s*(positive|negative|\+|-)/i
    <<BloodGroupWords \o Cap(1, One(ABOClass)) \o Spaces
        \o Cap(2, Words(<<<<"p", "o", "s", "i", "t", "i", "v", "e">>, <<"n", "e", "g", "a", "t", "i", "v", "e">>, <<"+">>, <<"-">>>>)), TRUE>>,
    \* /\b([AaBbOo0°])\s*(positive|negative|\+|-)\s*(?:blood)?/i
    <<WB \o Cap(1, One(ABOClass)) \o Spaces
        \o Cap(2, Words(<<<<"p", "o", "s", "i", "t", "i", "v", "e">>, <<"n", "e", "g", "a", "t", "i", "v", "e">>, <<"+">>, <<"-">>>>)) \o Spaces
        \o Opt(Lit(<<"b", "l", "o", "o", "d">>)), TRUE>>,
    \* /\b([AaBbOo0°])([+-])\b/
    <<WB \o Cap(1, One(ABOClass)) \o Cap(2, One({"+", "-"})) \o WB, FALSE>>,
    \* /blood\s*(?:group|type)[:\s]*([AaBbOo0°]{1,2})\s*(?:rh)?\s*(pos|neg|\+|-)?/i
    <<BloodGroupWords \o Cap(1, Rep(ABOClass, 1, 2)) \o Spaces \o Opt(Lit(<<"r", "h">>)) \o Spaces
        \o Opt(Cap(2, Words(<<<<"p", "o", "s">>, <<"n", "e", "g">>, <<"+">>, <<"-">>>>))), TRUE>> >>

\* BloodGroupFact that reads the Rh marker only when it is a sign: the words
\* pos, neg, positive and negative give an empty Rh part
BloodGroupFactSignsOnly(text, m) ==
    LET upper == toUpperCase(Group(text, m, 1))
        group == IF upper = <<"0">> \/ upper = <<"°">> THEN <<"O">> ELSE upper
        lower == toLowerCase(Group(text, m, 2))
        rh == IF lower = <<"+">> THEN <<"+">> ELSE IF lower = <<"-">> THEN <<"-">> ELSE <<>>
    IN Fact("blood_group", <<"B", "l", "o", "o", "d", " ", "G", "r", "o", "u", "p">>, group \o rh, <<>>, "high",
            <<"E", "x", "t", "r", "a", "c", "t", "e", "d", " ", "b", "l", "o", "o", "d", " ", "g", "r", "o", "u", "p", " ">> \o group \o rh \o <<" ", "f", "r", "o", "m", " ", "d", "o", "c", "u", "m", "e", "n", "t">>)

\* the fact built from the match m of a blood group pattern
BloodGroupFact(text, m) ==
    LET upper == toUpperCase(Group(text, m, 1))
        group == IF upper = <<"0">> \/ upper = <<"°">> THEN <<"O">> ELSE upper
        lower == toLowerCase(Group(text, m, 2))
        rh == IF lower = <<"+">> \/ lower = <<"p", "o", "s">> \/ lower = <<"p", "o", "s", "i", "t", "i", "v", "e">> THEN <<"+">>
              ELSE IF lower = <<"-">> \/ lower = <<"n", "e", "g">> \/ lower = <<"n", "e", "g", "a", "t", "i", "v", "e">> THEN <<"-">>
              ELSE <<>>
    IN Fact("blood_group", <<"B", "l", "o", "o", "d", " ", "G", "r", "o", "u", "p">>, group \o rh, <<>>, "high",
            <<"E", "x", "t", "r", "a", "c", "t", "e", "d", " ", "b", "l", "o", "o", "d", " ", "g", "r", "o", "u", "p", " ">> \o group \o rh \o <<" ", "f", "r", "o", "m", " ", "d", "o", "c", "u", "m", "e", "n", "t">>)

RECURSIVE BloodGroupFrom(_, _)
\* the loop over the patterns from pattern k on; null is <<>>, a fact f is <<f>>
BloodGroupFrom(text, k) ==
    IF k > Len(BloodGroupPatterns) THEN <<>>
    ELSE LET m == match(text, BloodGroupPatterns[k][1], BloodGroupPatterns[k][2])
         IN IF m.ok THEN <<BloodGroupFact(text, m)>> ELSE BloodGroupFrom(text, k + 1)

\* Extract blood group information
extractBloodGroup(text) == BloodGroupFrom(text, 1)

\* keyword[:\s]*(\d+\.?\d*)\s*(unit alternatives)?
LabRe(keyword, units) ==
    keyword \o ColonSpaces \o Cap(1, Number) \o Spaces \o Opt(Cap(2, Alt(units)))

\* cu\.?mm
CuMm == Lit(<<"c", "u">>) \o Maybe({"."}) \o Lit(<<"m", "m">>)

\* labPatterns: <<pattern, name, unit, type>>, every pattern with the i flag
labPatterns == <<
    <<LabRe(Lit(<<"h", "e", "m", "o", "g", "l", "o", "b", "i", "n">>), <<Lit(<<"g", "/", "d", "L">>), Lit(<<"g", "%">>), Lit(<<"g", "m", "%">>)>>),
      <<"H", "e", "m", "o", "g", "l", "o", "b", "i", "n">>, <<"g", "/", "d", "L">>, "laboratory_value">>,
    <<LabRe(Alt(<<Lit(<<"w", "b", "c">>),
                  Lit(<<"w", "h", "i", "t", "e">>) \o Spaces \o Lit(<<"b", "l", "o", "o", "d">>) \o Spaces \o Lit(<<"c", "e", "l", "l">>)>>),
            <<Lit(<<"c", "e", "l", "l", "s", "/">>) \o CuMm, Lit(<<"/", "c", "u", "m", "m">>), Lit(<<"c", "e", "l", "l", "s", "/", "µ", "L">>)>>),
      <<"W", "h", "i", "t", "e", " ", "B", "l", "o", "o", "d", " ", "C", "e", "l", "l", " ", "C", "o", "u", "n", "t">>, <<"c", "e", "l", "l", "s", "/", "c", "u", ".", "m", "m">>, "laboratory_value">>,
    <<LabRe(Alt(<<Lit(<<"r", "b", "c">>),
                  Lit(<<"r", "e", "d">>) \o Spaces \o Lit(<<"b", "l", "o", "o", "d">>) \o Spaces \o Lit(<<"c", "e", "l", "l">>)>>),
            <<Lit(<<"m", "i", "l", "l", "i", "o", "n", "/">>) \o CuMm, Lit(<<"c", "e", "l", "l", "s", "/", "µ", "L">>)>>),
      <<"R", "e", "d", " ", "B", "l", "o", "o", "d", " ", "C", "e", "l", "l", " ", "C", "o", "u", "n", "t">>, <<"m", "i", "l", "l", "i", "o", "n", "/", "c", "u", ".", "m", "m">>, "laboratory_value">>,
    <<LabRe(Lit(<<"p", "l", "a", "t", "e", "l", "e", "t">>) \o Maybe({"s"}),
            <<Lit(<<"l", "a", "k", "h">>), Lit(<<"t", "h", "o", "u", "s", "a", "n", "d">>), Lit(<<"/">>) \o CuMm, Lit(<<"c", "e", "l", "l", "s", "/", "µ", "L">>)>>),
      <<"P", "l", "a", "t", "e", "l", "e", "t", " ", "C", "o", "u", "n", "t">>, <<"/", "c", "u", ".", "m", "m">>, "laboratory_value">>,
    <<LabRe(Opt(Lit(<<"f", "a", "s", "t", "i", "n", "g">>) \o Spaces) \o Opt(Lit(<<"b", "l", "o", "o", "d">>) \o Spaces) \o Lit(<<"s", "u", "g", "a", "r">>),
            <<Lit(<<"m", "g", "/", "d", "L">>), Lit(<<"m", "g", "%">>)>>),
      <<"B", "l", "o", "o", "d", " ", "S", "u", "g", "a", "r">>, <<"m", "g", "/", "d", "L">>, "laboratory_value">>,
    <<LabRe(Lit(<<"g", "l", "u", "c", "o", "s", "e">>), <<Lit(<<"m", "g", "/", "d", "L">>), Lit(<<"m", "g", "%">>), Lit(<<"m", "m", "o", "l", "/", "L">>)>>),
      <<"G", "l", "u", "c", "o", "s", "e">>, <<"m", "g", "/", "d", "L">>, "laboratory_value">>,
    <<LabRe(Lit(<<"c", "h", "o", "l", "e", "s", "t", "e", "r", "o", "l">>), <<Lit(<<"m", "g", "/", "d", "L">>)>>),
      <<"C", "h", "o", "l", "e", "s", "t", "e", "r", "o", "l">>, <<"m", "g", "/", "d", "L">>, "laboratory_value">>,
    \* /(?:bp|blood\s*pressure)[:\s]*(\d+)\s*\/\s*(\d+)\s*(mmHg)?/i
    <<Alt(<<Lit(<<"b", "p">>), Lit(<<"b", "l", "o", "o", "d">>) \o Spaces \o Lit(<<"p", "r", "e", "s", "s", "u", "r", "e">>)>>) \o ColonSpaces
        \o Cap(1, Plus(Digit)) \o Spaces \o Lit(<<"/">>) \o Spaces \o Cap(2, Plus(Digit))
        \o Spaces \o Opt(Cap(3, Lit(<<"m", "m", "H", "g">>))),
      <<"B", "l", "o", "o", "d", " ", "P", "r", "e", "s", "s", "u", "r", "e">>, <<"m", "m", "H", "g">>, "vital">>,
    \* /pulse[:\s]*(\d+)\s*(\/min|bpm)?/i
    <<Lit(<<"p", "u", "l", "s", "e">>) \o ColonSpaces \o Cap(1, Plus(Digit)) \o Spaces
        \o Opt(Cap(2, Words(<<<<"/", "m", "i", "n">>, <<"b", "p", "m">>>>))),
      <<"P", "u", "l", "s", "e", " ", "R", "a", "t", "e">>, <<"b", "p", "m">>, "vital">>,
    \* /temperature[:\s]*(\d+\.?\d*)\s*(°?[FC])?/i
    <<LabRe(Lit(<<"t", "e", "m", "p", "e", "r", "a", "t", "u", "r", "e">>), <<Maybe({"°"}) \o One({"F", "C"})>>),
      <<"T", "e", "m", "p", "e", "r", "a", "t", "u", "r", "e">>, <<"°", "F">>, "vital">>,
    <<LabRe(Lit(<<"e", "s", "r">>), <<Lit(<<"m", "m", "/", "h", "r">>)>>), <<"E", "S", "R">>, <<"m", "m", "/", "h", "r">>, "laboratory_value">>,
    <<LabRe(Lit(<<"h", "b", "a", "1", "c">>), <<Lit(<<"%">>)>>), <<"H", "b", "A", "1", "c">>, <<"%">>, "laboratory_value">>,
    <<LabRe(Lit(<<"c", "r", "e", "a", "t", "i", "n", "i", "n", "e">>), <<Lit(<<"m", "g", "/", "d", "L">>)>>),
      <<"C", "r", "e", "a", "t", "i", "n", "i", "n", "e">>, <<"m", "g", "/", "d", "L">>, "laboratory_value">>,
    <<LabRe(Lit(<<"u", "r", "e", "a">>), <<Lit(<<"m", "g", "/", "d", "L">>)>>), <<"U", "r", "e", "a">>, <<"m", "g", "/", "d", "L">>, "laboratory_value">> >>

\* the fact pushed for the match m of labPatterns[k]
LabFact(text, m, k) ==
    LET name == labPatterns[k][2]
        value == IF name = <<"B", "l", "o", "o", "d", " ", "P", "r", "e", "s", "s", "u", "r", "e">> /\ Len(Group(text, m, 2)) > 0
                 THEN Group(text, m, 1) \o <<"/">> \o Group(text, m, 2)
                 ELSE Group(text, m, 1)
    IN Fact(labPatterns[k][4], name, value,
            Or(Group(text, m, 2), Or(Group(text, m, 3), labPatterns[k][3])), "high",
            <<"E", "x", "t", "r", "a", "c", "t", "e", "d", " ">> \o name \o <<" ", "v", "a", "l", "u", "e", " ", "f", "r", "o", "m", " ", "d", "o", "c", "u", "m", "e", "n", "t">>)

RECURSIVE LabValuesFrom(_, _)
\* the loop over labPatterns from entry k on
LabValuesFrom(text, k) ==
    IF k > Len(labPatterns) THEN <<>>
    ELSE LET m == match(text, labPatterns[k][1], TRUE)
         IN (IF m.ok THEN <<LabFact(text, m, k)>> ELSE <<>>) \o LabValuesFrom(text, k + 1)

\* Extract laboratory values
extractLabValues(text) == LabValuesFrom(text, 1)

\* ([A-Za-z]+(?:\s+[A-Za-z]+)?)
MedNameRe == Cap(1, Plus(Letter) \o Opt(Plus(Space) \o Plus(Letter)))

\* medPatterns, every pattern with the flags gi
medPatterns == <<
    \* /tab(?:let)?\.?\s*([A-Za-z]+(?:\s+[A-Za-z]+)?)\s*(\d+\s*mg)?/gi
    Lit(<<"t", "a", "b">>) \o Opt(Lit(<<"l", "e", "t">>)) \o Maybe({"."}) \o Spaces \o MedNameRe \o Spaces
        \o Opt(Cap(2, Plus(Digit) \o Spaces \o Lit(<<"m", "g">>))),
    \* /cap(?:sule)?\.?\s*([A-Za-z]+(?:\s+[A-Za-z]+)?)\s*(\d+\s*mg)?/gi
    Lit(<<"c", "a", "p">>) \o Opt(Lit(<<"s", "u", "l", "e">>)) \o Maybe({"."}) \o Spaces \o MedNameRe \o Spaces
        \o Opt(Cap(2, Plus(Digit) \o Spaces \o Lit(<<"m", "g">>))),
    \* /syp?\.?\s*([A-Za-z]+(?:\s+[A-Za-z]+)?)\s*(\d+\s*ml)?/gi
    Lit(<<"s", "y">>) \o Maybe({"p"}) \o Maybe({"."}) \o Spaces \o MedNameRe \o Spaces
        \o Opt(Cap(2, Plus(Digit) \o Spaces \o Lit(<<"m", "l">>))),
    \* /inj\.?\s*([A-Za-z]+(?:\s+[A-Za-z]+)?)/gi
    Lit(<<"i", "n", "j">>) \o Maybe({"."}) \o Spaces \o MedNameRe >>

\* Skip common false positives
MedStopWords == {<<"t", "h", "e">>, <<"a", "n", "d">>, <<"f", "o", "r">>, <<"w", "i", "t", "h">>}

RECURSIVE MedicationsOf(_, _, _)
\* while ((match = pattern.exec(text)) !== null) with lastIndex = from - 1
MedicationsOf(text, pattern, from) ==
    LET m == Exec(pattern, TRUE, text, from)
    IN IF ~m.ok THEN <<>>
       ELSE LET medName == trim(Group(text, m, 1))
                dosage == Or(Group(text, m, 2), <<>>)
            IN (IF toLowerCase(medName) \in MedStopWords THEN <<>>
                ELSE <<Fact("medication", medName, dosage, <<>>, "medium",
                            <<"M", "e", "d", "i", "c", "a", "t", "i", "o", "n", " ", "e", "x", "t", "r", "a", "c", "t", "e", "d", " ", "f", "r", "o", "m", " ", "p", "r", "e", "s", "c", "r", "i", "p", "t", "i", "o", "n", " ", "c", "o", "n", "t", "e", "x", "t">>)>>)
               \o MedicationsOf(text, pattern, m.end)

RECURSIVE MedicationsFrom(_, _)
\* the loop over medPatterns from pattern k on
MedicationsFrom(text, k) ==
    IF k > Len(medPatterns) THEN <<>>
    ELSE MedicationsOf(text, medPatterns[k], 1) \o MedicationsFrom(text, k + 1)

\* Extract medication information
extractMedications(text) == MedicationsFrom(text, 1)

----------------------------------------------------------------------------
(* Document Classifier *)

\* detectDocumentType with the scan keywords tested before the prescription keywords
detectDocumentTypeScanFirst(text) ==
    LET lowerText == toLowerCase(text)
    IN IF includes(lowerText, <<"b", "l", "o", "o", "d">>)
          /\ (includes(lowerText, <<"r", "e", "p", "o", "r", "t">>) \/ includes(lowerText, <<"t", "e", "s", "t">>))
       THEN "Blood Report"
       ELSE IF \/ includes(lowerText, <<"s", "c", "a", "n">>) \/ includes(lowerText, <<"x", "-", "r", "a", "y">>)
               \/ includes(lowerText, <<"m", "r", "i">>) \/ includes(lowerText, <<"c", "t">>)
               \/ includes(lowerText, <<"u", "l", "t", "r", "a", "s", "o", "u", "n", "d">>)
       THEN "Scan"
       ELSE IF \/ includes(lowerText, <<"p", "r", "e", "s", "c", "r", "i", "p", "t", "i", "o", "n">>) \/ includes(lowerText, <<"r", "x">>)
               \/ includes(lowerText, <<"t", "a", "b", ".">>) \/ includes(lowerText, <<"c", "a", "p", ".">>)
       THEN "Prescription"
       ELSE IF \/ includes(lowerText, <<"r", "e", "c", "e", "i", "p", "t">>) \/ includes(lowerText, <<"i", "n", "v", "o", "i", "c", "e">>)
               \/ includes(lowerText, <<"b", "i", "l", "l">>) \/ includes(lowerText, <<"p", "a", "y", "m", "e", "n", "t">>)
       THEN "Receipt"
       ELSE "Unknown"

\* detectDocumentType with the default of UploadPage where the source returns 'Unknown'
detectDocumentTypeDefaultBloodReport(text) ==
    LET lowerText == toLowerCase(text)
    IN IF \/ includes(lowerText, <<"p", "r", "e", "s", "c", "r", "i", "p", "t", "i", "o", "n">>) \/ includes(lowerText, <<"r", "x">>)
          \/ includes(lowerText, <<"t", "a", "b", ".">>) \/ includes(lowerText, <<"c", "a", "p", ".">>)
       THEN "Prescription"
       ELSE IF \/ includes(lowerText, <<"s", "c", "a", "n">>) \/ includes(lowerText, <<"x", "-", "r", "a", "y">>)
               \/ includes(lowerText, <<"m", "r", "i">>) \/ includes(lowerText, <<"c", "t">>)
               \/ includes(lowerText, <<"u", "l", "t", "r", "a", "s", "o", "u", "n", "d">>)
       THEN "Scan"
       ELSE IF \/ includes(lowerText, <<"r", "e", "c", "e", "i", "p", "t">>) \/ includes(lowerText, <<"i", "n", "v", "o", "i", "c", "e">>)
               \/ includes(lowerText, <<"b", "i", "l", "l">>) \/ includes(lowerText, <<"p", "a", "y", "m", "e", "n", "t">>)
       THEN "Receipt"
       ELSE "Blood Report"

\* Detect document type from content
detectDocumentType(text) ==
    LET lowerText == toLowerCase(text)
    IN IF includes(lowerText, <<"b", "l", "o", "o", "d">>)
          /\ (includes(lowerText, <<"r", "e", "p", "o", "r", "t">>) \/ includes(lowerText, <<"t", "e", "s", "t">>))
       THEN "Blood Report"
       ELSE IF \/ includes(lowerText, <<"p", "r", "e", "s", "c", "r", "i", "p", "t", "i", "o", "n">>) \/ includes(lowerText, <<"r", "x">>)
               \/ includes(lowerText, <<"t", "a", "b", ".">>) \/ includes(lowerText, <<"c", "a", "p", ".">>)
       THEN "Prescription"
       ELSE IF \/ includes(lowerText, <<"s", "c", "a", "n">>) \/ includes(lowerText, <<"x", "-", "r", "a", "y">>)
               \/ includes(lowerText, <<"m", "r", "i">>) \/ includes(lowerText, <<"c", "t">>)
               \/ includes(lowerText, <<"u", "l", "t", "r", "a", "s", "o", "u", "n", "d">>)
       THEN "Scan"
       ELSE IF \/ includes(lowerText, <<"r", "e", "c", "e", "i", "p", "t">>) \/ includes(lowerText, <<"i", "n", "v", "o", "i", "c", "e">>)
               \/ includes(lowerText, <<"b", "i", "l", "l">>) \/ includes(lowerText, <<"p", "a", "y", "m", "e", "n", "t">>)
       THEN "Receipt"
       ELSE "Unknown"

----------------------------------------------------------------------------
\* extractMedicalData that collects the medications before the lab values
extractMedicalDataMedicationsFirst(rawText) ==
    LET processedText == normalize(rawText)
    IN [document_type |-> detectDocumentType(processedText),
        report_date |-> extractDate(processedText),
        extracted_facts |-> extractBloodGroup(processedText)
                            \o extractMedications(processedText)
                            \o extractLabValues(processedText),
        corrected_text |-> processedText]

\* Main extraction function - processes OCR text into structured medical data
extractMedicalData(rawText) ==
    LET processedText == normalize(rawText)
    IN [document_type |-> detectDocumentType(processedText),
        report_date |-> extractDate(processedText),
        extracted_facts |-> extractBloodGroup(processedText)
                            \o extractLabValues(processedText)
                            \o extractMedications(processedText),
        corrected_text |-> processedText]

----------------------------------------------------------------------------
(* Evidence Locator *)

RECURSIVE SplitLines(_, _)
\* s.split('\n'), from position from on
SplitLines(s, from) ==
    LET breaks == {p \in from..Len(s) : s[p] = "\n"}
    IN IF breaks = {} THEN <<Sub(s, from, Len(s))>>
       ELSE LET p == CHOOSE b \in breaks : \A c \in breaks : b <= c
            IN <<Sub(s, from, p - 1)>> \o SplitLines(s, p + 1)

RECURSIVE SplitSpaces(_, _)
\* s.split(/\s+/), from position from on
SplitSpaces(s, from) ==
    LET m == Exec(Plus(Space), FALSE, s, from)
    IN IF ~m.ok THEN <<Sub(s, from, Len(s))>>
       ELSE <<Sub(s, from, m.start - 1)>> \o SplitSpaces(s, m.end)

\* the elements of a sequence, as [...new Set(seq)] read through some()
Elements(seq) == {seq[k] : k \in 1..Len(seq)}

\* [...new Set([...queryTerms, ...answerTerms])]
AllTerms(q, a) ==
    Elements(SplitSpaces(toLowerCase(q), 1)) \cup Elements(SplitSpaces(toLowerCase(a), 1))

\* text.split('\n').filter(line => line.trim())
NonBlankLines(text) == SelectSeq(SplitLines(text, 1), LAMBDA line : Len(trim(line)) > 0)

\* IsRelevant without the test of the term's length
IsRelevantAnyTerm(line, allTerms) ==
    LET lineLower == toLowerCase(line)
    IN \E term \in allTerms : Len(term) > 0 /\ includes(lineLower, term)

\* allTerms.some(term => term.length > 3 && lineLower.includes(term))
IsRelevant(line, allTerms) ==
    LET lineLower == toLowerCase(line)
    IN \E term \in allTerms : Len(term) > 3 /\ includes(lineLower, term)

\* a line shorter than this, trimmed, is never cited
MinLineLength == 10
\* Limit evidence items (llmService)
ServiceCap == 5
\* substring(0, 200) (llmService)
ServiceSnippetLength == 200
\* the cap and the snippet length of StudentMediAnalyzer
ViewCap == 3
ViewSnippetLength == 150

\* typeLabels[record.documentType] || record.documentType
TypeLabel(documentType) ==
    CASE documentType = "blood-report" -> "Blood Report"
      [] documentType = "prescription" -> "Prescription"
      [] documentType = "scan" -> "Scan/Imaging Report"
      [] documentType = "receipt" -> "Medical Receipt"
      [] OTHER -> documentType

\* ServiceItem with the snippet cut from the lower-cased line the relevance test
\* reads instead of the line itself
ServiceItemFromLowerCase(record, line) ==
    [documentType |-> TypeLabel(record.documentType), date |-> record.date,
     snippet |-> Prefix(trim(toLowerCase(line)), ServiceSnippetLength)]

\* the evidence item llmService pushes for a line of a record
ServiceItem(record, line) ==
    [documentType |-> TypeLabel(record.documentType), date |-> record.date,
     snippet |-> Prefix(trim(line), ServiceSnippetLength)]

\* the evidence item StudentMediAnalyzer pushes for a line of a report
ViewItem(report, line) ==
    [reportId |-> report.id,
     fileName |-> Or(report.file_name, <<"D", "o", "c", "u", "m", "e", "n", "t">>),
     fileUrl |-> report.file_url,
     snippet |-> Prefix(trim(line), ViewSnippetLength)]

RECURSIVE ServiceLinesUncapped(_, _, _, _, _)
\* ServiceLines without the break inside the loop over the lines
ServiceLinesUncapped(record, lines, k, allTerms, found) ==
    IF k > Len(lines) THEN found
    ELSE IF IsRelevant(lines[k], allTerms) /\ Len(trim(lines[k])) > MinLineLength
    THEN ServiceLinesUncapped(record, lines, k + 1, allTerms,
                              Append(found, ServiceItem(record, lines[k])))
    ELSE ServiceLinesUncapped(record, lines, k + 1, allTerms, found)

RECURSIVE ServiceLines(_, _, _, _, _)
\* the inner loop of findRelevantEvidence from line k of the record on
ServiceLines(record, lines, k, allTerms, found) ==
    IF k > Len(lines) THEN found
    ELSE IF IsRelevant(lines[k], allTerms) /\ Len(trim(lines[k])) > MinLineLength
    THEN LET pushed == Append(found, ServiceItem(record, lines[k]))
         IN IF Len(pushed) >= ServiceCap THEN pushed
            ELSE ServiceLines(record, lines, k + 1, allTerms, pushed)
    ELSE ServiceLines(record, lines, k + 1, allTerms, found)

RECURSIVE ServiceRecords(_, _, _, _)
\* the outer loop of findRelevantEvidence from record r on
ServiceRecords(recs, r, allTerms, found) ==
    IF r > Len(recs) THEN found
    ELSE LET after == ServiceLines(recs[r], NonBlankLines(recs[r].text), 1, allTerms, found)
         IN IF Len(after) >= ServiceCap THEN after
            ELSE ServiceRecords(recs, r + 1, allTerms, after)

\* Find relevant snippets from records that might answer the query
findRelevantEvidence(recs, q, a) == ServiceRecords(recs, 1, AllTerms(q, a), <<>>)

RECURSIVE ViewLines(_, _, _, _, _)
\* the inner loop of findEvidence from line k of the report on
ViewLines(report, lines, k, allTerms, found) ==
    IF k > Len(lines) THEN found
    ELSE IF IsRelevant(lines[k], allTerms) /\ Len(trim(lines[k])) > MinLineLength
    THEN LET pushed == Append(found, ViewItem(report, lines[k]))
         IN IF Len(pushed) >= ViewCap THEN pushed
            ELSE ViewLines(report, lines, k + 1, allTerms, pushed)
    ELSE ViewLines(report, lines, k + 1, allTerms, found)

RECURSIVE ViewReports(_, _, _, _)
\* the outer loop of findEvidence from report r on; a report without ocr_text
\* (null or empty, <<>>) is skipped
ViewReports(reps, r, allTerms, found) ==
    IF r > Len(reps) THEN found
    ELSE IF Len(reps[r].ocr_text) = 0 THEN ViewReports(reps, r + 1, allTerms, found)
    ELSE LET after == ViewLines(reps[r], NonBlankLines(reps[r].ocr_text), 1, allTerms, found)
         IN IF Len(after) >= ViewCap THEN after
            ELSE ViewReports(reps, r + 1, allTerms, after)

\* StudentMediAnalyzer.findEvidence
findEvidence(reps, q, a) == ViewReports(reps, 1, AllTerms(q, a), <<>>)

----------------------------------------------------------------------------
(* The state machines.  Each core function is pure: a specification draws   *)
(* its inputs in Init and its actions are the calls.                        *)

NoData ==
    [document_type |-> "Unknown", report_date |-> Null, extracted_facts |-> <<>>,
     corrected_text |-> <<>>]

\* the part of the state a specification of the extractor leaves alone
NoEvidenceState ==
    /\ records = <<>> /\ reports = <<>> /\ query = <<>> /\ answer = <<>>
    /\ evidence = <<>> /\ evidenceUI = <<>>
NoNormalizerState ==
    /\ normalized = <<>> /\ passes = 0
    /\ stageOut = [corrected |-> Null, expanded |-> Null, units |-> Null,
                   documentType |-> "null"]
    /\ processedFiles = <<>> /\ context = Null /\ contextUI = Null
    /\ calls = <<>> /\ ocrRun = <<>> /\ llmRun = <<>> /\ chat = <<>> /\ inflight = <<>>

\* const result = extractMedicalData(rawText)
ExtractMedicalData ==
    /\ "extractMedicalData" \notin done
    /\ data' = extractMedicalData(raw)
    /\ done' = done \cup {"extractMedicalData"}
    /\ UNCHANGED <<raw, dateOut, normalized, passes, records, reports, query, answer,
                   evidence, evidenceUI,
                   stageOut, processedFiles, context, contextUI,
                   calls, ocrRun, llmRun, chat, inflight>>

\* extractDate(text) on its own
ExtractDate ==
    /\ "extractDate" \notin done
    /\ dateOut' = extractDate(raw)
    /\ done' = done \cup {"extractDate"}
    /\ UNCHANGED <<raw, data, normalized, passes, records, reports, query, answer,
                   evidence, evidenceUI,
                   stageOut, processedFiles, context, contextUI,
                   calls, ocrRun, llmRun, chat, inflight>>

\* const evidence = findRelevantEvidence(records, userQuery, answer) (queryMedicalBot)
FindRelevantEvidence ==
    /\ "findRelevantEvidence" \notin done
    /\ evidence' = findRelevantEvidence(records, query, answer)
    /\ done' = done \cup {"findRelevantEvidence"}
    /\ UNCHANGED <<raw, data, dateOut, normalized, passes, records, reports, query, answer,
                   evidenceUI,
                   stageOut, processedFiles, context, contextUI,
                   calls, ocrRun, llmRun, chat, inflight>>

\* const evidence = findEvidence(userMessage.content, answer) (handleSend)
FindEvidence ==
    /\ "findEvidence" \notin done
    /\ evidenceUI' = findEvidence(reports, query, answer)
    /\ done' = done \cup {"findEvidence"}
    /\ UNCHANGED <<raw, data, dateOut, normalized, passes, records, reports, query, answer,
                   evidence,
                   stageOut, processedFiles, context, contextUI,
                   calls, ocrRun, llmRun, chat, inflight>>

----------------------------------------------------------------------------
(* The evidence locator on a bounded corpus *)

\* at most this many documents in the corpus
MaxDocs == 2
\* the long line has LongFill groups of ten digits
LongFill == 20

LongLine == <<"H", "e", "m", "o", "g", "l", "o", "b", "i", "n", " ", "H", "i", "s", "t", "o", "r", "y", " ">> \o Repeat(<<"0", "1", "2", "3", "4", "5", "6", "7", "8", "9">>, LongFill)

\* the stored texts of the documents
DocTexts == <<
    <<"H", "e", "m", "o", "g", "l", "o", "b", "i", "n", ":", " ", "1", "3", ".", "5", " ", "g", "/", "d", "L", "\n", " ", " ", " ", "\n", " ", " ", "W", "B", "C", " ", "C", "o", "u", "n", "t", " ", "7", "0", "0", "0", " ", " ", "\n", "P", "u", "l", "s", "e", " ", "7", "2">>,
    LongLine \o <<"\n", "H", "E", "M", "O", "G", "L", "O", "B", "I", "N", "\n", "B", "l", "o", "o", "d", " ", "P", "r", "e", "s", "s", "u", "r", "e", ":", " ", "1", "2", "0", "/", "8", "0", " ", "m", "m", "H", "g", "\n", "H", "e", "m", "o", "g", "l", "o", "b", "i", "n", " ", "l", "e", "v", "e", "l", " ", "n", "o", "r", "m", "a", "l">>,
    <<>>,
    <<"T", "o", "t", "a", "l", " ", "c", "o", "u", "n", "t", " ", "o", "f", " ", "h", "e", "m", "o", "g", "l", "o", "b", "i", "n", " ", "t", "e", "s", "t", "s", ":", " ", "3", "\n", "H", "e", "m", "o", "g", "l", "o", "b", "i", "n", ":", " ", "1", "2", ".", "1", "\n", "c", "o", "u", "n", "t", ":", " ", "5", " ", "i", "t", "e", "m", "s", " ", "l", "i", "s", "t", "e", "d">> >>
DocTypes == <<"blood-report", "prescription", "scan", "other">>

\* document d as a MedicalRecord
RecordOf(d) ==
    [id |-> Decimal(d), text |-> DocTexts[d], documentType |-> DocTypes[d],
     date |-> <<"2", "0", "2", "4", "-", "0", "3", "-", "0">> \o Decimal(d), fileName |-> <<"f", "i", "l", "e">> \o Decimal(d)]
\* document d as a row of medical_reports (a missing ocr_text is <<>>)
ReportOf(d) ==
    [id |-> Decimal(d), file_url |-> <<"u", "r", "l">> \o Decimal(d),
     file_name |-> IF d = 1 THEN <<>> ELSE <<"f", "i", "l", "e">> \o Decimal(d),
     ocr_text |-> DocTexts[d]]

Corpora == UNION {[1..n -> 1..Len(DocTexts)] : n \in 0..MaxDocs}

Questions == {<<"W", "h", "a", "t", " ", "i", "s", " ", "m", "y", " ", "H", "e", "m", "o", "g", "l", "o", "b", "i", "n", " ", " ", "c", "o", "u", "n", "t", "?">>, <<"B", "P", " ", "o", "k", "?">>, <<"p", "u", "l", "s", "e", " ", "c", "o", "u", "n", "t", " ", "r", "a", "t", "e">>}
Answers == {<<"Y", "o", "u", "r", " ", "H", "E", "M", "O", "G", "L", "O", "B", "I", "N", " ", "i", "s", " ", "1", "3", ".", "5", " ", "g", "/", "d", "L">>, <<"N", "o", "t", " ", "f", "o", "u", "n", "d", " ", "i", "n", " ", "y", "o", "u", "r", " ", "m", "e", "d", "i", "c", "a", "l", " ", "r", "e", "c", "o", "r", "d", "s", ".">>}

InitEvidence ==
    /\ done = {}
    /\ \E c \in Corpora :
          /\ records = [k \in 1..Len(c) |-> RecordOf(c[k])]
          /\ reports = [k \in 1..Len(c) |-> ReportOf(c[k])]
    /\ query \in Questions
    /\ answer \in Answers
    /\ evidence = <<>> /\ evidenceUI = <<>>
    /\ raw = <<>> /\ data = NoData /\ dateOut = Null /\ NoNormalizerState

NextEvidence == FindRelevantEvidence \/ FindEvidence

SpecEvidence == InitEvidence /\ [][NextEvidence]_vars

----------------------------------------------------------------------------
(* The extractor on bounded families of OCR texts.  One call is one action; *)
(* extractDate is also called on its own, on the text as given.             *)

NextExtraction == ExtractMedicalData \/ ExtractDate

\* the state before any call on the text t
Given(t) ==
    /\ done = {} /\ raw = t /\ data = NoData /\ dateOut = Null
    /\ NoNormalizerState /\ NoEvidenceState

\* blood group lines: vocabulary or none, a group token, an Rh marker
BloodTexts ==
    {p \o g \o s \o r :
        p \in {<<"B", "l", "o", "o", "d", " ", "G", "r", "o", "u", "p", ":", " ">>, <<"b", "l", "o", "o", "d", " ", "t", "y", "p", "e", " ">>, <<>>},
        g \in {<<"A">>, <<"B">>, <<"A", "B">>, <<"O">>, <<"0">>, <<"°">>, <<"B", "A">>, <<"O", "O">>, <<"A", "0">>, <<"a">>},
        s \in {<<" ">>, <<>>},
        r \in {<<"P", "o", "s", "i", "t", "i", "v", "e">>, <<"N", "e", "g", "a", "t", "i", "v", "e">>, <<"+">>, <<"-">>, <<>>}}
    \cup {<<"a", " ", "p", "o", "s", "i", "t", "i", "v", "e", " ", "r", "e", "s", "u", "l", "t">>, <<"V", "i", "t", "a", "m", "i", "n", " ", "B", "-", "1", "2", " ", "l", "e", "v", "e", "l">>, <<"B", "-", "1", "2">>, <<"B", "l", "o", "o", "d", " ", "G", "r", "o", "u", "p", ":", " ", "u", "n", "k", "n", "o", "w", "n">>,
          <<"B", "l", "o", "o", "d", " ", "G", "r", "o", "u", "p", ":", " ", "A", "B", " ", "R", "h", " ", "p", "o", "s">>, <<"n", "o", " ", "g", "r", "o", "u", "p", " ", "s", "t", "a", "t", "e", "d">>}

InitBlood == \E t \in BloodTexts : Given(t)
SpecBlood == InitBlood /\ [][NextExtraction]_vars

\* at most this many tens in a blood pressure reading
MaxTens == 13

\* blood pressure lines 'BP: S/D mmHg' and their variants; one line per recognizer
\* with a test name, a value and a unit token or none; prescription lines with a
\* shorthand prefix, a name and a dosage token or none
FactTexts ==
    {p \o Decimal(10 * s) \o <<"/">> \o Decimal(10 * d) \o u :
        p \in {<<"B", "P", ":", " ">>, <<"B", "l", "o", "o", "d", " ", "P", "r", "e", "s", "s", "u", "r", "e", " ">>},
        s \in {9, 12, MaxTens}, d \in {6, 8}, u \in {<<" ", "m", "m", "H", "g">>, <<>>}}
    \cup {n \o <<":", " ">> \o v \o u :
        n \in {<<"H", "e", "m", "o", "g", "l", "o", "b", "i", "n">>, <<"H", "b">>, <<"W", "B", "C">>, <<"R", "B", "C">>, <<"P", "l", "a", "t", "e", "l", "e", "t", "s">>, <<"F", "a", "s", "t", "i", "n", "g", " ", "B", "l", "o", "o", "d", " ", "S", "u", "g", "a", "r">>,
               <<"G", "l", "u", "c", "o", "s", "e">>, <<"C", "h", "o", "l", "e", "s", "t", "e", "r", "o", "l">>, <<"P", "u", "l", "s", "e">>, <<"T", "e", "m", "p", "e", "r", "a", "t", "u", "r", "e">>, <<"E", "S", "R">>, <<"H", "b", "A", "1", "c">>,
               <<"C", "r", "e", "a", "t", "i", "n", "i", "n", "e">>, <<"U", "r", "e", "a">>},
        v \in {<<"1", "3", ".", "5">>, <<"7">>},
        u \in {<<>>, <<" ", "g", "/", "d", "L">>, <<" ", "m", "g", "/", "d", "l">>, <<" ", "b", "p", "m">>, <<" ", "%">>}}
    \cup {p \o n \o d :
        p \in {<<"T", "a", "b", ".", " ">>, <<"T", "a", "b", "l", "e", "t", " ">>, <<"C", "a", "p", " ">>, <<"S", "y", "p", ".", " ">>, <<"I", "n", "j", ".", " ">>},
        n \in {<<"P", "a", "r", "a", "c", "e", "t", "a", "m", "o", "l">>, <<"A", "m", "o", "x", "i", "c", "i", "l", "l", "i", "n", " ", "F", "o", "r", "t", "e">>, <<"t", "h", "e">>},
        d \in {<<>>, <<" ", "5", "0", "0", "m", "g">>, <<" ", "5", " ", "m", "l">>}}

InitFacts == \E t \in FactTexts : Given(t)
SpecFacts == InitFacts /\ [][NextExtraction]_vars

\* the month words: <<name, three-letter abbreviation>>, in calendar order
MonthWords == <<
    <<<<"J", "a", "n", "u", "a", "r", "y">>, <<"J", "a", "n">>>>, <<<<"F", "e", "b", "r", "u", "a", "r", "y">>, <<"F", "e", "b">>>>, <<<<"M", "a", "r", "c", "h">>, <<"M", "a", "r">>>>,
    <<<<"A", "p", "r", "i", "l">>, <<"A", "p", "r">>>>, <<<<"M", "a", "y">>, <<"M", "a", "y">>>>, <<<<"J", "u", "n", "e">>, <<"J", "u", "n">>>>,
    <<<<"J", "u", "l", "y">>, <<"J", "u", "l">>>>, <<<<"A", "u", "g", "u", "s", "t">>, <<"A", "u", "g">>>>, <<<<"S", "e", "p", "t", "e", "m", "b", "e", "r">>, <<"S", "e", "p">>>>,
    <<<<"O", "c", "t", "o", "b", "e", "r">>, <<"O", "c", "t">>>>, <<<<"N", "o", "v", "e", "m", "b", "e", "r">>, <<"N", "o", "v">>>>, <<<<"D", "e", "c", "e", "m", "b", "e", "r">>, <<"D", "e", "c">>>> >>

\* 'D m Y' for every month word; numeric dates A/B/YYYY and YYYY/B/A with fields
\* in and out of range; documents with prose around one date expression of the
\* four patterns, or with two expressions
DateTexts ==
    LET DateForms == <<<<"1", "5", "/", "0", "3", "/", "2", "0", "2", "4">>, <<"2", "0", "2", "4", "-", "0", "4", "-", "1", "6">>, <<"1", "7", " ", "J", "u", "n", " ", "2", "0", "2", "4">>, <<"J", "u", "l", "y", " ", "1", "8", ",", " ", "2", "0", "2", "4">>>>
    IN {d \o <<" ">> \o MonthWords[k][w] \o <<" ", "2", "0", "2", "4">> :
            d \in {<<"5">>, <<"1", "5">>}, k \in 1..Len(MonthWords), w \in {1, 2}}
       \cup {a \o s \o b \o s \o <<"2", "0", "2", "4">> :
            a \in {<<"3">>, <<"1", "5">>, <<"3", "1">>, <<"3", "2">>}, b \in {<<"0">>, <<"0", "3">>, <<"1", "2">>, <<"1", "3">>},
            s \in {<<"/">>, <<"-">>, <<".">>}}
       \cup {<<"2", "0", "2", "4">> \o s \o b \o s \o a :
            a \in {<<"3">>, <<"1", "5">>}, b \in {<<"0", "3">>, <<"1", "3">>}, s \in {<<"/">>, <<"-">>}}
       \cup {p \o DateForms[k] \o x :
            p \in {<<>>, <<"S", "u", "m", "m", "a", "r", "y", " ">>, <<"M", "a", "y", " ", "r", "e", "v", "i", "e", "w", ":", " ">>, <<"S", "e", "e", "n", " ", "b", "y", " ", "D", "r", " ", "J", "a", "n", "e", " ", "o", "n", " ">>},
            k \in 1..Len(DateForms), x \in {<<>>, <<" ", "d", "i", "s", "c", "h", "a", "r", "g", "e">>}}
       \cup {DateForms[j] \o <<" ", "t", "o", " ">> \o DateForms[k] : j, k \in 1..Len(DateForms)}
       \cup {<<"n", "o", " ", "d", "a", "t", "e", " ", "h", "e", "r", "e">>, <<>>}

InitDates == \E t \in DateTexts : Given(t)
SpecDates == InitDates /\ [][NextExtraction]_vars

----------------------------------------------------------------------------
(* The normalizer applied to its own output *)

\* the normalizer runs at most this many times on a text
MaxPasses == 2

\* the corrected_text of extractMedicalData on the text of the last pass
Normalize ==
    /\ passes < MaxPasses
    /\ normalized' = extractMedicalData(IF passes = 0 THEN raw ELSE normalized).corrected_text
    /\ passes' = passes + 1
    /\ UNCHANGED <<done, raw, data, dateOut, records, reports, query, answer,
                   evidence, evidenceUI,
                   stageOut, processedFiles, context, contextUI,
                   calls, ocrRun, llmRun, chat, inflight>>

\* texts the rules act on: every abbreviation, every unit variant after a number,
\* and lines with the OCR misreads
NormalizerTexts ==
    {ABBREVIATIONS[k][1] \o <<" ", "1", "2">> : k \in 1..Len(ABBREVIATIONS)}
    \cup {<<"1", "0", " ">> \o UNIT_NORMALIZATIONS[k][1] : k \in 1..Len(UNIT_NORMALIZATIONS)}
    \cup {<<"B", "l", "o", "o", "d", " ", "G", "r", "o", "u", "p", ":", " ", "0", " ", "P", "o", "s", "i", "t", "i", "v", "e">>, <<"R", "h", " ", "p", "o", "s", "i", "t", "i", "v", "e">>, <<"r", "h", " ", "f", "a", "c", "t", "o", "r", ":", " ", "n", "e", "g">>, <<"R", "h", " ", "+">>,
          <<"9", "8", ".", "6", " ", "°", " ", "f">>, <<"3", "7", " ", "º", " ", "c">>, <<"l", "5", " ", "m", "g">>, <<"2", "O", " ", "m", "l">>, <<"h", "e", "m", "0", "g", "l", "o", "b", "i", "n", " ", "1", "3">>, <<"p", "l", "a", "t", "3", "l", "e", "t", "s">>,
          <<"g", "l", "0", "c", "o", "s", "e", " ", "9", "0">>, <<"c", "h", "0", "l", "e", "s", "t", "e", "r", "o", "l", " ", "1", "8", "0">>, <<"P", "a", "t", "i", "e", "n", "t", " ", "i", "s", " ", "s", "t", "a", "b", "l", "e">>, <<>>}

InitNormalize ==
    /\ done = {} /\ raw \in NormalizerTexts /\ data = NoData /\ dateOut = Null
    /\ NoNormalizerState /\ NoEvidenceState

SpecNormalize == InitNormalize /\ [][Normalize]_vars

----------------------------------------------------------------------------
(* The stages of the normalizer and the classifier, each called on a text   *)
(* on its own                                                   *)

\* correctOCRErrors(rawText)
CorrectOCRErrors ==
    /\ "correctOCRErrors" \notin done
    /\ stageOut' = [stageOut EXCEPT !.corrected = correctOCRErrors(raw)]
    /\ done' = done \cup {"correctOCRErrors"}
    /\ UNCHANGED <<raw, data, dateOut, normalized, passes, records, reports, query, answer,
                   evidence, evidenceUI, processedFiles, context, contextUI,
                   calls, ocrRun, llmRun, chat, inflight>>

\* expandAbbreviations(text)
ExpandAbbreviations ==
    /\ "expandAbbreviations" \notin done
    /\ stageOut' = [stageOut EXCEPT !.expanded = expandAbbreviations(raw)]
    /\ done' = done \cup {"expandAbbreviations"}
    /\ UNCHANGED <<raw, data, dateOut, normalized, passes, records, reports, query, answer,
                   evidence, evidenceUI, processedFiles, context, contextUI,
                   calls, ocrRun, llmRun, chat, inflight>>

\* normalizeUnits(text)
NormalizeUnits ==
    /\ "normalizeUnits" \notin done
    /\ stageOut' = [stageOut EXCEPT !.units = normalizeUnits(raw)]
    /\ done' = done \cup {"normalizeUnits"}
    /\ UNCHANGED <<raw, data, dateOut, normalized, passes, records, reports, query, answer,
                   evidence, evidenceUI, processedFiles, context, contextUI,
                   calls, ocrRun, llmRun, chat, inflight>>

\* detectDocumentType(text)
DetectDocumentType ==
    /\ "detectDocumentType" \notin done
    /\ stageOut' = [stageOut EXCEPT !.documentType = detectDocumentType(raw)]
    /\ done' = done \cup {"detectDocumentType"}
    /\ UNCHANGED <<raw, data, dateOut, normalized, passes, records, reports, query, answer,
                   evidence, evidenceUI, processedFiles, context, contextUI,
                   calls, ocrRun, llmRun, chat, inflight>>

\* a number, then nothing, a space or a line break, then a word; and the letter l
\* next to digits
DigitLetterTexts ==
    {n \o s \o w :
        n \in {<<"7", "2">>, <<"2">>, <<"1", "5">>}, s \in {<<>>, <<" ">>, <<"\n">>},
        w \in {<<"O", "b", "s", "e", "r", "v", "a", "t", "i", "o", "n", "s">>, <<"o", "f">>, <<"O", "c", "t">>, <<"O">>, <<"m", "l">>, <<"l", "a", "b">>}}
    \cup {<<"l", "5", " ", "m", "g">>, <<"l", " ", "5">>, <<"a", "l", "5">>, <<"t", "o", "t", "a", "l", " ", "5">>, <<"L", "5">>, <<"2", "O", "5">>, <<"1", "o">>, <<"x", "2", "o", " ", "7">>, <<"p", "u", "l", "s", "e", " ", "7", "2">>}

\* numeric expressions that start with the digit 0, and blood group lines
ZeroTexts ==
    {p \o z \o s \o m \o x :
        p \in {<<>>, <<"R", "a", "n", "g", "e", ":", " ">>, <<"1">>}, z \in {<<"0">>, <<"°">>}, s \in {<<>>, <<" ">>},
        m \in {<<"-">>, <<"+">>, <<"p", "o", "s", "i", "t", "i", "v", "e">>, <<"n", "e", "g", "a", "t", "i", "v", "e">>}, x \in {<<>>, <<"5">>, <<" ", "3">>}}
    \cup {<<"B", "l", "o", "o", "d", " ", "G", "r", "o", "u", "p", ":", " ", "0", " ", "P", "o", "s", "i", "t", "i", "v", "e">>, <<"B", "l", "o", "o", "d", " ", "T", "y", "p", "e", " ", "°", " ", "-">>, <<"R", "h", " ", "0">>, <<"0", ".", "5", " ", "m", "g">>, <<"1", "0", "0">>}

\* every unit variant as a token of its own and inside a longer token
UnitTexts ==
    {p \o UNIT_NORMALIZATIONS[k][1] \o x :
        k \in 1..Len(UNIT_NORMALIZATIONS), p \in {<<"1", "0", " ">>, <<"x">>}, x \in {<<>>, <<"t", "i", "o", "n">>}}
    \cup {<<"s", "e", "c", "t", "i", "o", "n", " ", "3">>, <<"1", "0", " ", "s", "e", "c", "o", "n", "d", "s">>, <<"3", "0", " ", "S", "E", "C", " ", "r", "e", "s", "t">>, <<"c", "o", "n", "s", "e", "c", "u", "t", "i", "v", "e", " ", "d", "a", "y", "s">>,
          <<"G", "l", "u", "c", "o", "s", "e", " ", "9", "0", " ", "M", "G", "/", "D", "L", " ", "f", "a", "s", "t", "i", "n", "g">>, <<"n", "o", " ", "u", "n", "i", "t", "s", " ", "h", "e", "r", "e">>}

\* every abbreviation as a word of its own and inside a longer word
AbbreviationTexts ==
    {p \o ABBREVIATIONS[k][1] \o x :
        k \in 1..Len(ABBREVIATIONS), p \in {<<>>, <<"s">>}, x \in {<<" ", "1", "2">>, <<"e", "r">>}}
    \cup {<<"s", "a", "l", "t">>, <<"d", "o", "c", "t", "o", "r">>, <<"C", "T", " ", "s", "c", "a", "n">>, <<"H", "b", "-", "A", "1", "c">>, <<"T", "3", "/", "T", "4", ":", " ", "A", "L", "T">>, <<"H", "b", ":", " ", "1", "3", "\n", "B", "P", " ", "1", "2", "0", "/", "8", "0">>,
          <<"(", "E", "S", "R", ")">>, <<"n", "o", " ", "s", "h", "o", "r", "t", " ", "f", "o", "r", "m", "s">>}

InitStages ==
    \E t \in DigitLetterTexts \cup ZeroTexts \cup UnitTexts \cup AbbreviationTexts : Given(t)
NextStages == CorrectOCRErrors \/ ExpandAbbreviations \/ NormalizeUnits
SpecStages == InitStages /\ [][NextStages]_vars

----------------------------------------------------------------------------
(* The extractor on documents of two lines, in either order *)

\* lines of a report: facts of every kind, several on a line, and plain prose
DocumentLines == <<
    <<"B", "l", "o", "o", "d", " ", "G", "r", "o", "u", "p", ":", " ", "O", " ", "P", "o", "s", "i", "t", "i", "v", "e">>,
    <<"P", "u", "l", "s", "e", " ", "7", "2", " ", "b", "p", "m", ",", " ", "H", "e", "m", "o", "g", "l", "o", "b", "i", "n", " ", "1", "3", ".", "5", " ", "g", "/", "d", "L", ",", " ", "B", "l", "o", "o", "d", " ", "G", "r", "o", "u", "p", " ", "A", "B", " ", "n", "e", "g">>,
    <<"G", "l", "u", "c", "o", "s", "e", ":", " ", "9", "0", " ", "m", "g", "/", "d", "l", " ", "C", "h", "o", "l", "e", "s", "t", "e", "r", "o", "l", ":", " ", "1", "8", "0">>,
    <<"T", "e", "m", "p", "e", "r", "a", "t", "u", "r", "e", " ", "9", "8", ".", "6", " ", "F", " ", "P", "u", "l", "s", "e", ":", " ", "8", "0">>,
    <<"T", "a", "b", ".", " ", "P", "a", "r", "a", "c", "e", "t", "a", "m", "o", "l", " ", "5", "0", "0", "m", "g">>,
    <<"I", "n", "j", ".", " ", "I", "n", "s", "u", "l", "i", "n", ",", " ", "C", "a", "p", " ", "A", "m", "o", "x", "i", "c", "i", "l", "l", "i", "n", " ", "2", "5", "0", " ", "m", "g">>,
    <<"S", "y", "p", ".", " ", "t", "h", "e">>,
    <<"T", "a", "b", "l", "e", "t", " ", "a", "n", "d", " ", "5", "m", "g">>,
    <<"P", "a", "t", "i", "e", "n", "t", " ", "i", "s", " ", "s", "t", "a", "b", "l", "e">>,
    <<"L", "u", "n", "g", " ", "c", "a", "p", "a", "c", "i", "t", "y", " ", "n", "o", "r", "m", "a", "l">>,
    <<"D", "i", "g", "e", "s", "t", "i", "v", "e", " ", "s", "y", "s", "t", "e", "m", " ", "f", "i", "n", "e">>,
    <<"K", "n", "e", "e", " ", "i", "n", "j", "u", "r", "y", " ", "n", "o", "t", "e", "d">> >>

DocumentTexts ==
    {DocumentLines[j] : j \in 1..Len(DocumentLines)}
    \cup {DocumentLines[j] \o <<"\n">> \o DocumentLines[k] : j, k \in 1..Len(DocumentLines)}

InitDocuments == \E t \in DocumentTexts : Given(t)
SpecDocuments == InitDocuments /\ [][NextExtraction]_vars

----------------------------------------------------------------------------
(* The classifier on every combination of category keywords *)

\* one word per slot: a keyword of the category, in some letter case, or a word
\* that is no keyword
KeywordTexts ==
    {b \o r \o p \o s \o c :
        b \in {<<"B", "l", "o", "o", "d", " ">>, <<"F", "l", "u", "i", "d", " ">>},
        r \in {<<"R", "E", "P", "O", "R", "T", " ">>, <<"t", "e", "s", "t", " ">>, <<"n", "o", "t", "e", " ">>},
        p \in {<<"P", "r", "e", "s", "c", "r", "i", "p", "t", "i", "o", "n", " ">>, <<"R", "x", " ">>, <<"T", "a", "b", ".", " ">>, <<"c", "a", "p", ".", " ">>, <<"n", "o", "n", "e", " ">>},
        s \in {<<"S", "c", "a", "n", " ">>, <<"x", "-", "r", "a", "y", " ">>, <<"M", "R", "I", " ">>, <<"C", "T", " ">>, <<"u", "l", "t", "r", "a", "s", "o", "u", "n", "d", " ">>, <<"p", "l", "a", "i", "n", " ">>},
        c \in {<<"r", "e", "c", "e", "i", "p", "t">>, <<"I", "n", "v", "o", "i", "c", "e">>, <<"B", "i", "l", "l">>, <<"p", "a", "y", "m", "e", "n", "t">>, <<"e", "n", "d">>}}

InitClassify == \E t \in KeywordTexts : Given(t)
SpecClassify == InitClassify /\ [][DetectDocumentType]_vars

----------------------------------------------------------------------------
(* Ingestion: from an uploaded image to the context of the LLM        *)

\* the number of documents uploaded, on the two pages together
MaxUploads == 2

\* result.text of performOCR: what the OCR engine read on the image
OcrTexts == {<<"H", "b", " ", "1", "3", ".", "5", " ", "g", "/", "d", "l">>, <<"B", "l", "o", "o", "d", " ", "G", "r", "o", "u", "p", ":", " ", "0", " ", "p", "o", "s", "i", "t", "i", "v", "e">>, <<"P", "u", "l", "s", "e", " ", "7", "2", " ", "b", "p", "m">>, <<" ", " ">>}

\* new Date().toISOString().split('T')[0]
Todays == {<<"2", "0", "2", "6", "-", "0", "1", "-", "1", "5">>}

\* extractedData.document_type mapped to the record's documentType
DetectedType(document_type) ==
    CASE document_type = "Blood Report" -> "blood-report"
      [] document_type = "Prescription" -> "prescription"
      [] document_type = "Scan" -> "scan"
      [] document_type = "Receipt" -> "receipt"
      [] OTHER -> "blood-report"

\* UploadPage.onDrop for one image: OCR, extraction, and the entry of the
\* processing queue
UploadPageDrop ==
    /\ Len(processedFiles) + Len(records) + Len(reports) < MaxUploads
    /\ \E ocr \in OcrTexts, today \in Todays :
          \E extractedData \in {extractMedicalData(ocr)} :
             processedFiles' = Append(processedFiles,
                [fileName |-> <<"s", "c", "a", "n", ".", "p", "n", "g">>,
                 text |-> extractedData.corrected_text,
                 documentType |-> DetectedType(extractedData.document_type),
                 date |-> IF extractedData.report_date = Null THEN today
                          ELSE extractedData.report_date,
                 extractedData |-> extractedData])
    /\ UNCHANGED <<done, raw, data, dateOut, normalized, passes, records, reports, query,
                   answer, evidence, evidenceUI, stageOut, context, contextUI,
                   calls, ocrRun, llmRun, chat, inflight>>

\* UploadPage.saveRecord(index) with MedicalContext.addRecord
SaveRecord ==
    /\ \E index \in 1..Len(processedFiles) :
          LET file == processedFiles[index]
          IN /\ trim(file.text) # <<>>
             /\ records' = Append(records,
                   [id |-> Decimal(Len(records) + 1), text |-> file.text,
                    documentType |-> file.documentType, date |-> file.date,
                    fileName |-> file.fileName, extractedData |-> file.extractedData])
             /\ processedFiles' = [k \in 1..(Len(processedFiles) - 1) |->
                                     IF k < index THEN processedFiles[k]
                                     ELSE processedFiles[k + 1]]
    /\ UNCHANGED <<done, raw, data, dateOut, normalized, passes, reports, query, answer,
                   evidence, evidenceUI, stageOut, context, contextUI,
                   calls, ocrRun, llmRun, chat, inflight>>

\* StudentRecords.onDrop for one image: OCR, extraction, and the row inserted
\* into medical_reports (read back by fetchReports)
StudentRecordsDrop ==
    /\ Len(processedFiles) + Len(records) + Len(reports) < MaxUploads
    /\ \E ocr \in OcrTexts :
          \E extractedData \in {extractMedicalData(ocr)} :
             reports' = Append(reports,
                [id |-> Decimal(Len(reports) + 1), file_url |-> <<"u", "r", "l", "/", "r", "e", "p", "o", "r", "t", ".", "p", "n", "g">>,
                 file_name |-> <<"r", "e", "p", "o", "r", "t", ".", "p", "n", "g">>,
                 extracted_data |-> extractedData,
                 ocr_text |-> ocr])
    /\ UNCHANGED <<done, raw, data, dateOut, normalized, passes, records, query, answer,
                   evidence, evidenceUI, stageOut, processedFiles, context, contextUI,
                   calls, ocrRun, llmRun, chat, inflight>>

RECURSIVE JoinWith(_, _)
\* Array.prototype.join
JoinWith(parts, separator) ==
    IF Len(parts) = 0 THEN <<>>
    ELSE IF Len(parts) = 1 THEN parts[1]
    ELSE parts[1] \o separator \o JoinWith(Tail(parts), separator)

\* typeLabels[record.documentType] || record.documentType, as text
TypeLabelText(documentType) ==
    CASE documentType = "blood-report" -> <<"B", "l", "o", "o", "d", " ", "R", "e", "p", "o", "r", "t">>
      [] documentType = "prescription" -> <<"P", "r", "e", "s", "c", "r", "i", "p", "t", "i", "o", "n">>
      [] documentType = "scan" -> <<"S", "c", "a", "n", "/", "I", "m", "a", "g", "i", "n", "g", " ", "R", "e", "p", "o", "r", "t">>
      [] documentType = "receipt" -> <<"M", "e", "d", "i", "c", "a", "l", " ", "R", "e", "c", "e", "i", "p", "t">>

\* Build context from medical records for the LLM
buildMedicalContext(recs) ==
    IF Len(recs) = 0 THEN <<"N", "o", " ", "m", "e", "d", "i", "c", "a", "l", " ", "r", "e", "c", "o", "r", "d", "s", " ", "a", "v", "a", "i", "l", "a", "b", "l", "e", ".">>
    ELSE JoinWith(
        [index \in 1..Len(recs) |->
            <<"-", "-", "-", " ", "D", "O", "C", "U", "M", "E", "N", "T", " ">> \o Decimal(index) \o <<" ", "-", "-", "-">> \o <<"\n">>
            \o <<"T", "y", "p", "e", ":", " ">> \o TypeLabelText(recs[index].documentType) \o <<"\n">>
            \o <<"D", "a", "t", "e", ":", " ">> \o recs[index].date \o <<"\n">>
            \o <<"F", "i", "l", "e", ":", " ">> \o recs[index].fileName \o <<"\n">>
            \o <<"C", "o", "n", "t", "e", "n", "t", ":">> \o <<"\n">>
            \o recs[index].text \o <<"\n">>
            \o <<"-", "-", "-", " ", "E", "N", "D", " ", "D", "O", "C", "U", "M", "E", "N", "T", " ">> \o Decimal(index) \o <<" ", "-", "-", "-">>],
        <<"\n", "\n">>)

\* `${f.name}: ${f.value} ${f.unit || ''}`
FactLine(f) ==
    f.name \o <<":", " ">> \o f.value \o <<" ">> \o (IF f.unit = Null THEN <<>> ELSE f.unit)

\* StudentMediAnalyzer.buildContext over the rows fetched
buildContext(reps) ==
    IF Len(reps) = 0 THEN <<>>
    ELSE JoinWith(
        [i \in 1..Len(reps) |->
            LET facts == reps[i].extracted_data.extracted_facts
                extractedInfo == JoinWith([k \in 1..Len(facts) |-> FactLine(facts[k])],
                                          <<"\n">>)
            IN <<"-", "-", "-", " ", "D", "O", "C", "U", "M", "E", "N", "T", " ">> \o Decimal(i) \o <<":", " ">> \o reps[i].file_name \o <<" ", "-", "-", "-">>
               \o <<"\n">> \o reps[i].ocr_text \o <<"\n", "\n">>
               \o <<"E", "x", "t", "r", "a", "c", "t", "e", "d", " ", "F", "a", "c", "t", "s", ":">> \o <<"\n">> \o extractedInfo \o <<"\n">>
               \o <<"-", "-", "-", " ", "E", "N", "D", " ", "D", "O", "C", "U", "M", "E", "N", "T", " ">> \o Decimal(i) \o <<" ", "-", "-", "-">>],
        <<"\n", "\n">>)

\* queryLLM: the context built from the records in memory
BuildMedicalContext ==
    /\ context' = buildMedicalContext(records)
    /\ context' # context
    /\ UNCHANGED <<done, raw, data, dateOut, normalized, passes, records, reports, query,
                   answer, evidence, evidenceUI, stageOut, processedFiles, contextUI,
                   calls, ocrRun, llmRun, chat, inflight>>

\* StudentMediAnalyzer: the context built from the rows fetched
BuildContext ==
    /\ contextUI' = buildContext(reports)
    /\ contextUI' # contextUI
    /\ UNCHANGED <<done, raw, data, dateOut, normalized, passes, records, reports, query,
                   answer, evidence, evidenceUI, stageOut, processedFiles, context,
                   calls, ocrRun, llmRun, chat, inflight>>

InitIngestion ==
    /\ done = {} /\ raw = <<>> /\ data = NoData /\ dateOut = Null
    /\ normalized = <<>> /\ passes = 0
    /\ stageOut = [corrected |-> Null, expanded |-> Null, units |-> Null,
                   documentType |-> "null"]
    /\ records = <<>> /\ reports = <<>> /\ query = <<>> /\ answer = <<>>
    /\ evidence = <<>> /\ evidenceUI = <<>>
    /\ processedFiles = <<>> /\ context = Null /\ contextUI = Null
    /\ calls = <<>> /\ ocrRun = <<>> /\ llmRun = <<>> /\ chat = <<>> /\ inflight = <<>>

NextIngestion ==
    UploadPageDrop \/ SaveRecord \/ StudentRecordsDrop \/ BuildMedicalContext \/ BuildContext

SpecIngestion == InitIngestion /\ [][NextIngestion]_vars
----------------------------------------------------------------------------
(* The extractor on texts with little or nothing to recognise *)

\* lines of a document: empty, blank, prose, numbers, and abbreviations that
\* only the normalizer turns into vocabulary
PlainLines == <<
    <<>>,
    <<" ", " ", " ">>,
    <<"P", "a", "t", "i", "e", "n", "t", " ", "f", "e", "e", "l", "s", " ", "w", "e", "l", "l">>,
    <<"F", "o", "l", "l", "o", "w", " ", "u", "p", " ", "i", "n", " ", "t", "w", "o", " ", "w", "e", "e", "k", "s">>,
    <<"N", "o", " ", "c", "o", "m", "p", "l", "a", "i", "n", "t", "s">>,
    <<"D", "r", ".", " ", "R", "a", "o", " ", "a", "d", "v", "i", "s", "e", "d", " ", "r", "e", "s", "t">>,
    <<"1", "2", "3", "4", "5">>,
    <<"H", "b", " ", "1", "3", ".", "5">>,
    <<"E", "C", "G", " ", "n", "o", "r", "m", "a", "l">>,
    <<"C", "B", "C", " ", "L", "F", "T">>,
    <<"h", "e", "m", "0", "g", "l", "o", "b", "i", "n", " ", "1", "1">>,
    <<"S", "e", "e", "n", " ", "o", "n", " ", "5", " ", "J", "a", "n", " ", "2", "0", "2", "4">>,
    <<"R", "s", ".", " ", "4", "5", "0", " ", "p", "a", "i", "d">> >>

PlainTexts ==
    {PlainLines[j] : j \in 1..Len(PlainLines)}
    \cup {PlainLines[j] \o <<"\n">> \o PlainLines[k] : j, k \in 1..Len(PlainLines)}

InitPlain == \E t \in PlainTexts : Given(t)
SpecPlain == InitPlain /\ [][NextExtraction]_vars
----------------------------------------------------------------------------
(* Repeated calls of the extractor and of the evidence locator, in any      *)
(* order.  The only objects with state that a call touches are the regular  *)
(* expressions with the g flag of extractMedications; they are created by   *)
(* the call (a literal in the function body), so every call starts them at  *)
(* lastIndex 0.                                                             *)

\* the number of calls
MaxCalls == 3

\* pattern.lastIndex had the loop stopped at the first match
LastIndexAfterFirstMatch(text, pattern, from) ==
    LET m == Exec(pattern, TRUE, text, from)
    IN IF ~m.ok THEN 0 ELSE m.end - 1

RECURSIVE LastIndexAfter(_, _, _)
\* pattern.lastIndex when while ((match = pattern.exec(text)) !== null) ends: exec
\* sets it behind every match and to 0 when it finds none
LastIndexAfter(text, pattern, from) ==
    LET m == Exec(pattern, TRUE, text, from)
    IN IF ~m.ok THEN 0 ELSE LastIndexAfter(text, pattern, m.end)

\* the texts the extractor is called on
CallTexts == {<<"T", "a", "b", ".", " ", "P", "a", "r", "a", "c", "e", "t", "a", "m", "o", "l", " ", "5", "0", "0", "m", "g", ",", " ", "T", "a", "b", " ", "A", "s", "p", "i", "r", "i", "n">>, <<"H", "b", " ", "1", "3", ".", "5", " ", "g", "/", "d", "l", " ", "o", "n", " ", "5", " ", "J", "a", "n", " ", "2", "0", "2", "4">>}

\* the questions the evidence locator is called on
CallQuestions == {<<"W", "h", "a", "t", " ", "i", "s", " ", "m", "y", " ", "H", "e", "m", "o", "g", "l", "o", "b", "i", "n", " ", " ", "c", "o", "u", "n", "t", "?">>, <<"p", "u", "l", "s", "e", " ", "c", "o", "u", "n", "t", " ", "r", "a", "t", "e">>}

\* extractMedicalData(rawText), once more
CallExtractMedicalData ==
    /\ Len(calls) < MaxCalls
    /\ \E t \in CallTexts :
          calls' = Append(calls,
              [fn |-> "extractMedicalData", input |-> t,
               output |-> extractMedicalData(t),
               lastIndex |-> [k \in 1..Len(medPatterns) |->
                                 LastIndexAfter(normalize(t), medPatterns[k], 1)]])
    /\ UNCHANGED <<done, raw, data, dateOut, normalized, passes, records, reports, query,
                   answer, evidence, evidenceUI, stageOut, processedFiles, context,
                   contextUI, ocrRun, llmRun, chat, inflight>>

\* findRelevantEvidence(records, query, answer), once more
CallFindRelevantEvidence ==
    /\ Len(calls) < MaxCalls
    /\ \E q \in CallQuestions :
          calls' = Append(calls,
              [fn |-> "findRelevantEvidence", input |-> <<records, q, answer>>,
               output |-> findRelevantEvidence(records, q, answer),
               lastIndex |-> [k \in 1..Len(medPatterns) |-> 0]])
    /\ UNCHANGED <<done, raw, data, dateOut, normalized, passes, records, reports, query,
                   answer, evidence, evidenceUI, stageOut, processedFiles, context,
                   contextUI, ocrRun, llmRun, chat, inflight>>

\* StudentMediAnalyzer's findEvidence(query, answer), once more
CallFindEvidence ==
    /\ Len(calls) < MaxCalls
    /\ \E q \in CallQuestions :
          calls' = Append(calls,
              [fn |-> "findEvidence", input |-> <<reports, q, answer>>,
               output |-> findEvidence(reports, q, answer),
               lastIndex |-> [k \in 1..Len(medPatterns) |-> 0]])
    /\ UNCHANGED <<done, raw, data, dateOut, normalized, passes, records, reports, query,
                   answer, evidence, evidenceUI, stageOut, processedFiles, context,
                   contextUI, ocrRun, llmRun, chat, inflight>>

InitCalls ==
    /\ done = {} /\ raw = <<>> /\ data = NoData /\ dateOut = Null /\ NoNormalizerState
    /\ records = <<RecordOf(1), RecordOf(4)>>
    /\ reports = <<ReportOf(1), ReportOf(4)>>
    /\ query = <<>> /\ answer = <<"Y", "o", "u", "r", " ", "H", "E", "M", "O", "G", "L", "O", "B", "I", "N", " ", "i", "s", " ", "1", "3", ".", "5", " ", "g", "/", "d", "L">>
    /\ evidence = <<>> /\ evidenceUI = <<>>

NextCalls == CallExtractMedicalData \/ CallFindRelevantEvidence \/ CallFindEvidence

SpecCalls == InitCalls /\ [][NextCalls]_vars
----------------------------------------------------------------------------
(* The extractor on lines '<abbreviation>: <number>' *)

\* the tests with an entry in ABBREVIATIONS and a recognizer in labPatterns
AbbreviatedNames ==
    <<<<"H", "b">>, <<"H", "g", "b">>, <<"W", "B", "C">>, <<"R", "B", "C">>, <<"P", "L", "T">>, <<"E", "S", "R">>, <<"H", "b", "A", "1", "c">>, <<"F", "B", "S">>, <<"B", "P">>>>

AbbreviatedTexts ==
    {(IF c = "lower" THEN toLowerCase(AbbreviatedNames[k]) ELSE AbbreviatedNames[k])
        \o s \o n :
        k \in 1..Len(AbbreviatedNames), c \in {"written", "lower"},
        s \in {<<":", " ">>, <<" ">>}, n \in {<<"1", "3", ".", "5">>, <<"7", "0", "0", "0">>, <<"1", "2", "0", "/", "8", "0">>}}

InitAbbreviated == \E t \in AbbreviatedTexts : Given(t)
SpecAbbreviated == InitAbbreviated /\ [][NextExtraction]_vars
----------------------------------------------------------------------------
(* The classifier on a text as given and on the same text after            *)
(* normalization                                                           *)

\* lines with category keywords, some of them abbreviations of the table
ScanLines == <<
    <<"M", "R", "I", " ", "b", "r", "a", "i", "n">>,
    <<"C", "T", " ", "c", "h", "e", "s", "t">>,
    <<"U", "l", "t", "r", "a", "s", "o", "u", "n", "d", " ", "a", "b", "d", "o", "m", "e", "n">>,
    <<"X", "-", "r", "a", "y", " ", "o", "f", " ", "t", "h", "e", " ", "k", "n", "e", "e">>,
    <<"E", "C", "G", " ", "n", "o", "r", "m", "a", "l">>,
    <<"C", "B", "C", " ", "L", "F", "T">>,
    <<"B", "l", "o", "o", "d", " ", "t", "e", "s", "t">>,
    <<"R", "x", " ", "a", "s", " ", "a", "d", "v", "i", "s", "e", "d">>,
    <<"B", "i", "l", "l", " ", "n", "o", " ", "1", "2">>,
    <<"P", "a", "t", "i", "e", "n", "t", " ", "f", "e", "e", "l", "s", " ", "w", "e", "l", "l">> >>

ScanTexts ==
    {ScanLines[j] : j \in 1..Len(ScanLines)}
    \cup {ScanLines[j] \o <<"\n">> \o ScanLines[k] : j, k \in 1..Len(ScanLines)}

InitScans == \E t \in ScanTexts : Given(t)
NextScans == ExtractMedicalData \/ DetectDocumentType
SpecScans == InitScans /\ [][NextScans]_vars
----------------------------------------------------------------------------
(* UploadPage: drops, OCR runs that settle later, removeFile and saveRecord *)

\* the images dropped, one per drop
MaxDrops == 3

\* file.name of the images
DropFiles == <<<<"a", ".", "p", "n", "g">>, <<"b", ".", "p", "n", "g">>, <<"c", ".", "p", "n", "g">>>>

\* what performOCR reads on each image
OcrTextOf(fileName) ==
    CASE fileName = <<"a", ".", "p", "n", "g">> -> <<"H", "b", " ", "1", "3", ".", "5", " ", "g", "/", "d", "l">>
      [] fileName = <<"b", ".", "p", "n", "g">> -> <<"P", "u", "l", "s", "e", " ", "7", "2", " ", "b", "p", "m">>
      [] fileName = <<"c", ".", "p", "n", "g">> -> <<"B", "l", "o", "o", "d", " ", "G", "r", "o", "u", "p", ":", " ", "0", " ", "p", "o", "s", "i", "t", "i", "v", "e">>

\* onDrop up to the first await of performOCR: the entry of the image is appended
\* to the queue and fileIndex is fixed as processedFiles.length + i
DropFile ==
    /\ Cardinality(inflight) < MaxDrops
    /\ \E f \in 1..Len(DropFiles), today \in Todays :
          /\ \A t \in inflight : t.fileName # DropFiles[f]
          /\ processedFiles' = Append(processedFiles,
                [fileName |-> DropFiles[f], text |-> <<>>, documentType |-> "blood-report",
                 date |-> today, isProcessing |-> TRUE, error |-> <<>>,
                 extractedData |-> Null])
          /\ inflight' = inflight \cup
                {[fileName |-> DropFiles[f], fileIndex |-> Len(processedFiles) + 1,
                  pending |-> TRUE]}
    /\ UNCHANGED <<done, raw, data, dateOut, normalized, passes, records, reports, query,
                   answer, evidence, evidenceUI, stageOut, context, contextUI,
                   calls, ocrRun, llmRun, chat>>

\* performOCR resolved: the result is written to the entry at idx === fileIndex
OcrResolved ==
    /\ \E t \in {r \in inflight : r.pending}, today \in Todays :
          \E extractedData \in {extractMedicalData(OcrTextOf(t.fileName))} :
             /\ processedFiles' =
                   [idx \in 1..Len(processedFiles) |->
                       IF idx = t.fileIndex
                       THEN [processedFiles[idx] EXCEPT
                               !.text = extractedData.corrected_text,
                               !.isProcessing = FALSE,
                               !.extractedData = extractedData,
                               !.documentType = DetectedType(extractedData.document_type),
                               !.date = IF extractedData.report_date = Null THEN today
                                        ELSE extractedData.report_date]
                       ELSE processedFiles[idx]]
             /\ inflight' = (inflight \ {t}) \cup {[t EXCEPT !.pending = FALSE]}
    /\ UNCHANGED <<done, raw, data, dateOut, normalized, passes, records, reports, query,
                   answer, evidence, evidenceUI, stageOut, context, contextUI,
                   calls, ocrRun, llmRun, chat>>

\* performOCR rejected: the error is written to the entry at idx === fileIndex
OcrRejected ==
    /\ \E t \in {r \in inflight : r.pending} :
          /\ processedFiles' =
                [idx \in 1..Len(processedFiles) |->
                    IF idx = t.fileIndex
                    THEN [processedFiles[idx] EXCEPT
                            !.isProcessing = FALSE,
                            !.error = <<"O", "C", "R", " ", "f", "a", "i", "l", "e", "d", ":", " ">> \o t.fileName]
                    ELSE processedFiles[idx]]
          /\ inflight' = (inflight \ {t}) \cup {[t EXCEPT !.pending = FALSE]}
    /\ UNCHANGED <<done, raw, data, dateOut, normalized, passes, records, reports, query,
                   answer, evidence, evidenceUI, stageOut, context, contextUI,
                   calls, ocrRun, llmRun, chat>>

\* removeFile(index)
RemoveFile ==
    /\ \E index \in 1..Len(processedFiles) :
          processedFiles' = [k \in 1..(Len(processedFiles) - 1) |->
                                IF k < index THEN processedFiles[k]
                                ELSE processedFiles[k + 1]]
    /\ UNCHANGED <<done, raw, data, dateOut, normalized, passes, records, reports, query,
                   answer, evidence, evidenceUI, stageOut, context, contextUI,
                   calls, ocrRun, llmRun, chat, inflight>>

InitUpload ==
    /\ done = {} /\ raw = <<>> /\ data = NoData /\ dateOut = Null
    /\ normalized = <<>> /\ passes = 0
    /\ stageOut = [corrected |-> Null, expanded |-> Null, units |-> Null,
                   documentType |-> "null"]
    /\ records = <<>> /\ reports = <<>> /\ query = <<>> /\ answer = <<>>
    /\ evidence = <<>> /\ evidenceUI = <<>>
    /\ processedFiles = <<>> /\ context = Null /\ contextUI = Null
    /\ calls = <<>> /\ ocrRun = <<>> /\ llmRun = <<>> /\ chat = <<>> /\ inflight = {}

NextUpload == DropFile \/ OcrResolved \/ OcrRejected \/ RemoveFile \/ SaveRecord

SpecUpload == InitUpload /\ [][NextUpload]_vars
----------------------------------------------------------------------------
(* llmService: one call of queryMedicalBot.  The call is in two steps, the  *)
(* part before the await of fetch and the part after it; what the network   *)
(* does in between is an input.                                              *)

\* the keys the sidebar can hold
ApiKeys == {<<>>, <<"g", "s", "k", "_", "1">>}

\* the record lists a call is made with
RecordLists == {<<>>, <<RecordOf(1)>>, <<RecordOf(1), RecordOf(3)>>}

\* what fetch and response.json() can give: fetch rejects (with an Error or
\* with something else), a status that is not OK with or without an error
\* body, an OK status whose body does not parse, an OK status with or
\* without choices[0].message.content
Responses ==
    {[kind |-> "rejected", status |-> 0, message |-> <<"F", "a", "i", "l", "e", "d", " ", "t", "o", " ", "f", "e", "t", "c", "h">>, content |-> Null],
     [kind |-> "rejectedNonError", status |-> 0, message |-> Null, content |-> Null],
     [kind |-> "badJson", status |-> 200, message |-> <<"U", "n", "e", "x", "p", "e", "c", "t", "e", "d", " ", "t", "o", "k", "e", "n">>, content |-> Null]}
    \cup {[kind |-> "http", status |-> s, message |-> m, content |-> Null] :
             s \in {401, 429, 500}, m \in {Null, <<"m", "o", "d", "e", "l", " ", "o", "v", "e", "r", "l", "o", "a", "d", "e", "d">>}}
    \cup {[kind |-> "http", status |-> 200, message |-> Null, content |-> c] :
             c \in Answers \cup {Null, <<>>}}

\* response.ok
Ok(response) == response.kind = "http" /\ response.status >= 200 /\ response.status <= 299

NoRecordsAnswer ==
    <<"N", "o", " ", "m", "e", "d", "i", "c", "a", "l", " ", "r", "e", "c", "o", "r", "d", "s", " ", "h", "a", "v", "e", " ", "b", "e", "e", "n", " ", "u", "p", "l", "o", "a", "d", "e", "d", " ", "y", "e", "t", ".", " ", "P", "l", "e", "a", "s", "e", " ", "u", "p", "l", "o", "a", "d", " ", "y", "o", "u", "r", " ", "m", "e", "d", "i", "c", "a", "l", " ", "d", "o", "c", "u", "m", "e", "n", "t", "s", " ", "f", "i", "r", "s", "t", " ", "u", "s", "i", "n", "g", " ", "t", "h", "e", " ", "\"", "U", "p", "l", "o", "a", "d", " ", "M", "e", "d", "i", "c", "a", "l", " ", "R", "e", "c", "o", "r", "d", "s", "\"", " ", "p", "a", "g", "e", ".">>

\* the request fetch is called with
Request(apiKey, userQuery, recs) ==
    [authorization |-> <<"B", "e", "a", "r", "e", "r", " ">> \o apiKey,
     medicalContext |-> buildMedicalContext(recs),
     userQuery |-> userQuery]

\* a value that is absent, and one that is there
None == <<>>
Some(x) == <<x>>

\* a call that ended by throw new Error(message)
Thrown(requests, message) ==
    [requests |-> requests, threw |-> TRUE, error |-> message,
     answer |-> Null, evidence |-> None]

\* a call that ended by return { answer, evidence }
Returned(requests, answer_, evidence_) ==
    [requests |-> requests, threw |-> FALSE, error |-> Null,
     answer |-> answer_, evidence |-> Some(evidence_)]

\* the guards had the key been the only one: the request goes out without records
SendsRequestKeyOnly(apiKey, recs) == apiKey # <<>>

\* the two guards before the request: a key and at least one record
SendsRequest(apiKey, recs) == apiKey # <<>> /\ Len(recs) # 0

\* queryMedicalBot(apiKey, userQuery, records), response being what the
\* network answers to the request if one is sent
queryMedicalBot(apiKey, userQuery, recs, response) ==
    IF ~SendsRequest(apiKey, recs)
    THEN IF apiKey = <<>>
         THEN Thrown(<<>>,
                <<"G", "r", "o", "q", " ", "A", "P", "I", " ", "k", "e", "y", " ", "i", "s", " ", "r", "e", "q", "u", "i", "r", "e", "d", ".", " ", "P", "l", "e", "a", "s", "e", " ", "e", "n", "t", "e", "r", " ", "y", "o", "u", "r", " ", "A", "P", "I", " ", "k", "e", "y", " ", "i", "n", " ", "t", "h", "e", " ", "s", "i", "d", "e", "b", "a", "r", ".">>)
         ELSE Returned(<<>>, NoRecordsAnswer, <<>>)
    ELSE LET requests == <<Request(apiKey, userQuery, recs)>>
         IN CASE response.kind = "rejected" -> Thrown(requests, response.message)
              [] response.kind = "rejectedNonError" ->
                    Thrown(requests,
                      <<"F", "a", "i", "l", "e", "d", " ", "t", "o", " ", "c", "o", "n", "n", "e", "c", "t", " ", "t", "o", " ", "G", "r", "o", "q", " ", "A", "P", "I", ".", " ", "P", "l", "e", "a", "s", "e", " ", "c", "h", "e", "c", "k", " ", "y", "o", "u", "r", " ", "i", "n", "t", "e", "r", "n", "e", "t", " ", "c", "o", "n", "n", "e", "c", "t", "i", "o", "n", ".">>)
              [] response.kind = "badJson" -> Thrown(requests, response.message)
              [] OTHER ->
                    IF ~Ok(response)
                    THEN IF response.status = 401
                         THEN Thrown(requests,
                                <<"I", "n", "v", "a", "l", "i", "d", " ", "A", "P", "I", " ", "k", "e", "y", ".", " ", "P", "l", "e", "a", "s", "e", " ", "c", "h", "e", "c", "k", " ", "y", "o", "u", "r", " ", "G", "r", "o", "q", " ", "C", "l", "o", "u", "d", " ", "A", "P", "I", " ", "k", "e", "y", ".">>)
                         ELSE IF response.status = 429
                         THEN Thrown(requests,
                                <<"R", "a", "t", "e", " ", "l", "i", "m", "i", "t", " ", "e", "x", "c", "e", "e", "d", "e", "d", ".", " ", "P", "l", "e", "a", "s", "e", " ", "w", "a", "i", "t", " ", "a", " ", "m", "o", "m", "e", "n", "t", " ", "a", "n", "d", " ", "t", "r", "y", " ", "a", "g", "a", "i", "n", ".">>)
                         ELSE Thrown(requests,
                                IF response.message # Null THEN response.message
                                ELSE <<"A", "P", "I", " ", "e", "r", "r", "o", "r", ":", " ">> \o Decimal(response.status))
                    ELSE LET answer_ == IF response.content = Null \/ response.content = <<>>
                                        THEN <<"U", "n", "a", "b", "l", "e", " ", "t", "o", " ", "g", "e", "n", "e", "r", "a", "t", "e", " ", "a", " ", "r", "e", "s", "p", "o", "n", "s", "e", ".">>
                                        ELSE response.content
                         IN Returned(requests, answer_,
                                     findRelevantEvidence(recs, userQuery, answer_))

\* the call starts: the guards, and the request if they let it out
QueryMedicalBotStart ==
    /\ llmRun.pc = "start"
    /\ IF SendsRequest(llmRun.apiKey, records)
       THEN llmRun' = [llmRun EXCEPT
                !.pc = "await",
                !.requests = <<Request(llmRun.apiKey, llmRun.userQuery, records)>>]
       ELSE \E r \in {queryMedicalBot(llmRun.apiKey, llmRun.userQuery, records, Null)} :
               llmRun' = [llmRun EXCEPT !.pc = "settled", !.requests = r.requests,
                                        !.result = r]
    /\ UNCHANGED <<done, raw, data, dateOut, normalized, passes, records, reports, query,
                   answer, evidence, evidenceUI, stageOut, processedFiles, context,
                   contextUI, calls, ocrRun, chat, inflight>>

\* the network answers and the call settles
QueryMedicalBotSettle ==
    /\ llmRun.pc = "await"
    /\ \E response \in Responses :
          \E r \in {queryMedicalBot(llmRun.apiKey, llmRun.userQuery, records, response)} :
             llmRun' = [llmRun EXCEPT !.pc = "settled", !.response = response,
                                      !.result = r]
    /\ UNCHANGED <<done, raw, data, dateOut, normalized, passes, records, reports, query,
                   answer, evidence, evidenceUI, stageOut, processedFiles, context,
                   contextUI, calls, ocrRun, chat, inflight>>

InitLlm ==
    /\ done = {} /\ raw = <<>> /\ data = NoData /\ dateOut = Null
    /\ normalized = <<>> /\ passes = 0
    /\ stageOut = [corrected |-> Null, expanded |-> Null, units |-> Null,
                   documentType |-> "null"]
    /\ records \in RecordLists /\ reports = <<>> /\ query = <<>> /\ answer = <<>>
    /\ evidence = <<>> /\ evidenceUI = <<>>
    /\ processedFiles = <<>> /\ context = Null /\ contextUI = Null
    /\ calls = <<>> /\ ocrRun = <<>> /\ chat = <<>> /\ inflight = <<>>
    /\ \E k \in ApiKeys, q \in Questions :
          llmRun = [apiKey |-> k, userQuery |-> q, pc |-> "start", requests |-> <<>>,
                    response |-> Null, result |-> Null]

NextLlm == QueryMedicalBotStart \/ QueryMedicalBotSettle

SpecLlm == InitLlm /\ [][NextLlm]_vars
----------------------------------------------------------------------------
(* ocrService: one call of performOCR, step by step through its awaits:     *)
(* createWorker, fileToBase64, worker.recognize, and worker.terminate in    *)
(* the finally block.                                                        *)

\* the images a call is made on
OcrFiles == {DropFiles[1], DropFiles[2]}

\* data.text of a recognition (Null: the field is missing)
RecognizedTexts == {<<" ", " ", "H", "b", " ", "1", "3", ".", "5", " ", "g", "/", "d", "l", " ", "\n">>, <<>>, Null}

\* data.confidence of a recognition
Confidences == {0, 87}

\* m.progress of a logger message, in thousandths
Progresses == {0, 505, 1000}

\* m.status of a logger message
Statuses == {"loading tesseract core", "recognizing text"}

\* Math.round(m.progress * 100), m.progress in thousandths
RoundedPercent(progress) == (progress + 5) \div 10

\* the try block left without the finally block: the worker is terminated after
\* a return only
FinallyOnReturnOnly(run, completion) ==
    IF completion.threw
    THEN [run EXCEPT !.pc = "settled", !.completion = completion,
                     !.outcome = completion]
    ELSE [run EXCEPT !.pc = "terminate", !.completion = completion,
                     !.terminateCalls = @ + 1]

\* try { ... } finally { await worker.terminate(); }: however the try block
\* completes, terminate is called next and awaited
Finally(run, completion) ==
    [run EXCEPT !.pc = "terminate", !.completion = completion,
                !.terminateCalls = @ + 1]

\* a completion by return, and one by throw
ReturnOf(value) == [threw |-> FALSE, value |-> Some(value), error |-> <<>>]
ThrowOf(error) == [threw |-> TRUE, value |-> None, error |-> error]

\* await createWorker('eng', 1, {logger}) resolves
CreateWorkerResolved ==
    /\ ocrRun.pc = "createWorker"
    /\ ocrRun' = [ocrRun EXCEPT !.pc = "fileToBase64", !.worker = TRUE]
    /\ UNCHANGED <<done, raw, data, dateOut, normalized, passes, records, reports, query,
                   answer, evidence, evidenceUI, stageOut, processedFiles, context,
                   contextUI, calls, llmRun, chat, inflight>>

\* await createWorker rejects: there is no worker, the call rejects
CreateWorkerRejected ==
    /\ ocrRun.pc = "createWorker"
    /\ ocrRun' = [ocrRun EXCEPT !.pc = "settled",
                                !.outcome = ThrowOf(<<"c", "r", "e", "a", "t", "e", "W", "o", "r", "k", "e", "r", " ", "f", "a", "i", "l", "e", "d">>)]
    /\ UNCHANGED <<done, raw, data, dateOut, normalized, passes, records, reports, query,
                   answer, evidence, evidenceUI, stageOut, processedFiles, context,
                   contextUI, calls, llmRun, chat, inflight>>

\* the logger: progress is reported during recognition if onProgress is given
Logger ==
    /\ ocrRun.pc \in {"createWorker", "recognize"}
    /\ \E status \in Statuses, progress \in Progresses :
          /\ status = "recognizing text" => ocrRun.pc = "recognize"
          /\ ocrRun' = IF status = "recognizing text" /\ ocrRun.onProgress
                       THEN [ocrRun EXCEPT !.progress = Some(RoundedPercent(progress))]
                       ELSE ocrRun
          /\ ocrRun' # ocrRun
    /\ UNCHANGED <<done, raw, data, dateOut, normalized, passes, records, reports, query,
                   answer, evidence, evidenceUI, stageOut, processedFiles, context,
                   contextUI, calls, llmRun, chat, inflight>>

\* await fileToBase64(file) resolves (reader.onload)
FileToBase64Resolved ==
    /\ ocrRun.pc = "fileToBase64"
    /\ ocrRun' = [ocrRun EXCEPT !.pc = "recognize"]
    /\ UNCHANGED <<done, raw, data, dateOut, normalized, passes, records, reports, query,
                   answer, evidence, evidenceUI, stageOut, processedFiles, context,
                   contextUI, calls, llmRun, chat, inflight>>

\* await fileToBase64(file) rejects (reader.onerror)
FileToBase64Rejected ==
    /\ ocrRun.pc = "fileToBase64"
    /\ ocrRun' = Finally(ocrRun, ThrowOf(<<"r", "e", "a", "d", " ", "f", "a", "i", "l", "e", "d">>))
    /\ UNCHANGED <<done, raw, data, dateOut, normalized, passes, records, reports, query,
                   answer, evidence, evidenceUI, stageOut, processedFiles, context,
                   contextUI, calls, llmRun, chat, inflight>>

\* await worker.recognize(imageData) resolves; data.text.trim() throws on a
\* missing text
RecognizeResolved ==
    /\ ocrRun.pc = "recognize"
    /\ \E text \in RecognizedTexts, confidence \in Confidences :
          ocrRun' = Finally(ocrRun,
                       IF text = Null
                       THEN ThrowOf(<<"C", "a", "n", "n", "o", "t", " ", "r", "e", "a", "d", " ", "p", "r", "o", "p", "e", "r", "t", "i", "e", "s", " ", "o", "f", " ", "u", "n", "d", "e", "f", "i", "n", "e", "d">>)
                       ELSE ReturnOf([text |-> trim(text), confidence |-> confidence]))
    /\ UNCHANGED <<done, raw, data, dateOut, normalized, passes, records, reports, query,
                   answer, evidence, evidenceUI, stageOut, processedFiles, context,
                   contextUI, calls, llmRun, chat, inflight>>

\* await worker.recognize(imageData) rejects
RecognizeRejected ==
    /\ ocrRun.pc = "recognize"
    /\ ocrRun' = Finally(ocrRun, ThrowOf(<<"r", "e", "c", "o", "g", "n", "i", "t", "i", "o", "n", " ", "f", "a", "i", "l", "e", "d">>))
    /\ UNCHANGED <<done, raw, data, dateOut, normalized, passes, records, reports, query,
                   answer, evidence, evidenceUI, stageOut, processedFiles, context,
                   contextUI, calls, llmRun, chat, inflight>>

\* await worker.terminate() resolves: the call settles as the try block completed
TerminateResolved ==
    /\ ocrRun.pc = "terminate"
    /\ ocrRun' = [ocrRun EXCEPT !.pc = "settled", !.terminated = TRUE,
                                !.outcome = ocrRun.completion]
    /\ UNCHANGED <<done, raw, data, dateOut, normalized, passes, records, reports, query,
                   answer, evidence, evidenceUI, stageOut, processedFiles, context,
                   contextUI, calls, llmRun, chat, inflight>>

\* await worker.terminate() rejects: the call rejects with that error
TerminateRejected ==
    /\ ocrRun.pc = "terminate"
    /\ ocrRun' = [ocrRun EXCEPT !.pc = "settled",
                                !.outcome = ThrowOf(<<"t", "e", "r", "m", "i", "n", "a", "t", "e", " ", "f", "a", "i", "l", "e", "d">>)]
    /\ UNCHANGED <<done, raw, data, dateOut, normalized, passes, records, reports, query,
                   answer, evidence, evidenceUI, stageOut, processedFiles, context,
                   contextUI, calls, llmRun, chat, inflight>>

InitOcr ==
    /\ done = {} /\ raw = <<>> /\ data = NoData /\ dateOut = Null
    /\ normalized = <<>> /\ passes = 0
    /\ stageOut = [corrected |-> Null, expanded |-> Null, units |-> Null,
                   documentType |-> "null"]
    /\ records = <<>> /\ reports = <<>> /\ query = <<>> /\ answer = <<>>
    /\ evidence = <<>> /\ evidenceUI = <<>>
    /\ processedFiles = <<>> /\ context = Null /\ contextUI = Null
    /\ calls = <<>> /\ llmRun = <<>> /\ chat = <<>> /\ inflight = <<>>
    /\ \E file \in OcrFiles, onProgress \in BOOLEAN :
          ocrRun = [file |-> file, onProgress |-> onProgress, pc |-> "createWorker",
                    worker |-> FALSE, terminateCalls |-> 0, terminated |-> FALSE,
                    progress |-> None, completion |-> ThrowOf(<<>>),
                    outcome |-> ThrowOf(<<>>)]

NextOcr ==
    \/ CreateWorkerResolved \/ CreateWorkerRejected \/ Logger
    \/ FileToBase64Resolved \/ FileToBase64Rejected
    \/ RecognizeResolved \/ RecognizeRejected
    \/ TerminateResolved \/ TerminateRejected

SpecOcr == InitOcr /\ [][NextOcr]_vars
----------------------------------------------------------------------------
(* The two chat views: ChatPage (handleSendMessage, with queryMedicalBot)   *)
(* and StudentMediAnalyzer (handleSend, with the analyze-medical function). *)
(* A send is in two steps, the part before the await and the part after it. *)
(* chat.isLoading is isQueryingLLM in ChatPage and isLoading in             *)
(* StudentMediAnalyzer; chat.pending holds the requests awaited.            *)

\* sends are taken while the chat has room for a question and its reply
MaxMessages == 4

ChatViews == {"ChatPage", "StudentMediAnalyzer"}

\* what the input box can hold
ChatInputs == {<<>>, <<" ", " ", " ">>, <<" ", "B", "P", " ", "o", "k", "?", " ">>, <<"p", "u", "l", "s", "e", " ", "c", "o", "u", "n", "t", " ", "r", "a", "t", "e">>}

\* the example queries offered under an empty chat
ExampleQueries == {<<"W", "h", "a", "t", " ", "i", "s", " ", "m", "y", " ", "b", "l", "o", "o", "d", " ", "g", "r", "o", "u", "p", "?">>}

\* what the network answers to ChatPage's request
ChatResponses ==
    {r \in Responses :
        \/ r.kind = "rejected"
        \/ r.kind = "http" /\ r.status = 401 /\ r.message = Null
        \/ r.kind = "http" /\ r.status = 200 /\ r.content \in {Null, <<"B", "P", " ", "1", "2", "0", "/", "8", "0", " ", "m", "m", "H", "g">>}}

\* what supabase.functions.invoke gives StudentMediAnalyzer: { data, error },
\* or a rejection
InvokeResults ==
    {[rejected |-> FALSE, error |-> FALSE, answer |-> a] : a \in {Null, <<"B", "P", " ", "1", "2", "0", "/", "8", "0", " ", "m", "m", "H", "g">>}}
    \cup {[rejected |-> FALSE, error |-> TRUE, answer |-> Null],
          [rejected |-> TRUE, error |-> FALSE, answer |-> Null]}

UserMessage(content) == [role |-> "user", content |-> content, evidence |-> None]
AssistantMessage(content, evidence_) ==
    [role |-> "assistant", content |-> content, evidence |-> evidence_]

NoReportsMessage ==
    AssistantMessage(
      <<"N", "o", " ", "m", "e", "d", "i", "c", "a", "l", " ", "r", "e", "c", "o", "r", "d", "s", " ", "h", "a", "v", "e", " ", "b", "e", "e", "n", " ", "u", "p", "l", "o", "a", "d", "e", "d", " ", "y", "e", "t", ".", " ", "P", "l", "e", "a", "s", "e", " ", "u", "p", "l", "o", "a", "d", " ", "y", "o", "u", "r", " ", "m", "e", "d", "i", "c", "a", "l", " ", "d", "o", "c", "u", "m", "e", "n", "t", "s", " ", "f", "i", "r", "s", "t", " ", "u", "s", "i", "n", "g", " ", "t", "h", "e", " ", "\"", "M", "y", " ", "M", "e", "d", "i", "c", "a", "l", " ", "R", "e", "c", "o", "r", "d", "s", "\"", " ", "p", "a", "g", "e", ".">>,
      None)

\* handleSend without the test of isLoading
HandleSendGuardInputOnly(c) == trim(c.input) # <<>>

\* handleSend: if (!input.trim() || isLoading) return
HandleSendGuard(c) == trim(c.input) # <<>> /\ ~c.isLoading

\* the input box, enabled while nothing is loading
TypeInput ==
    /\ ~chat.isLoading
    /\ \E text \in ChatInputs :
          /\ text # chat.input
          /\ chat' = [chat EXCEPT !.input = text]
    /\ UNCHANGED <<done, raw, data, dateOut, normalized, passes, records, reports, query,
                   answer, evidence, evidenceUI, stageOut, processedFiles, context,
                   contextUI, calls, ocrRun, llmRun, inflight>>

\* an example query is clicked: shown while the chat is empty
ExampleQuery ==
    /\ chat.messages = <<>>
    /\ \E text \in ExampleQueries :
          /\ text # chat.input
          /\ chat' = [chat EXCEPT !.input = text]
    /\ UNCHANGED <<done, raw, data, dateOut, normalized, passes, records, reports, query,
                   answer, evidence, evidenceUI, stageOut, processedFiles, context,
                   contextUI, calls, ocrRun, llmRun, inflight>>

\* ChatPage.handleSendMessage up to the await: the send button and the input
\* box are disabled while isQueryingLLM; a blank input and a missing key return
HandleSendMessage ==
    /\ chat.view = "ChatPage"
    /\ ~chat.isLoading
    /\ trim(chat.input) # <<>>
    /\ chat.apiKey # <<>>
    /\ Len(chat.messages) + 2 <= MaxMessages
    /\ chat' = [chat EXCEPT
          !.messages = Append(@, UserMessage(trim(chat.input))),
          !.input = <<>>,
          !.isLoading = TRUE,
          !.pending = Append(@, [query |-> trim(chat.input)])]
    /\ UNCHANGED <<done, raw, data, dateOut, normalized, passes, records, reports, query,
                   answer, evidence, evidenceUI, stageOut, processedFiles, context,
                   contextUI, calls, ocrRun, llmRun, inflight>>

\* ChatPage.handleSendMessage after the await: the reply or the error text,
\* and finally setIsQueryingLLM(false)
HandleSendMessageSettle ==
    /\ chat.view = "ChatPage"
    /\ chat.pending # <<>>
    /\ \E response \in ChatResponses :
        \E r \in {queryMedicalBot(chat.apiKey, Head(chat.pending).query, records, response)} :
          chat' = [chat EXCEPT
             !.messages = Append(@,
                 IF r.threw
                 THEN AssistantMessage(
                        <<"I", " ", "e", "n", "c", "o", "u", "n", "t", "e", "r", "e", "d", " ", "a", "n", " ", "e", "r", "r", "o", "r", ":", " ">> \o r.error
                        \o <<".", " ", "P", "l", "e", "a", "s", "e", " ", "c", "h", "e", "c", "k", " ", "y", "o", "u", "r", " ", "A", "P", "I", " ", "k", "e", "y", " ", "a", "n", "d", " ", "t", "r", "y", " ", "a", "g", "a", "i", "n", ".">>, None)
                 ELSE AssistantMessage(r.answer, r.evidence)),
             !.isLoading = FALSE,
             !.pending = Tail(@)]
    /\ UNCHANGED <<done, raw, data, dateOut, normalized, passes, records, reports, query,
                   answer, evidence, evidenceUI, stageOut, processedFiles, context,
                   contextUI, calls, ocrRun, llmRun, inflight>>

\* StudentMediAnalyzer.handleSend up to the await, or to the return when there
\* are no reports
HandleSend ==
    /\ chat.view = "StudentMediAnalyzer"
    /\ HandleSendGuard(chat)
    /\ Len(chat.messages) + 2 <= MaxMessages
    /\ IF Len(reports) = 0
       THEN chat' = [chat EXCEPT
               !.messages = @ \o <<UserMessage(trim(chat.input)), NoReportsMessage>>,
               !.input = <<>>,
               !.isLoading = FALSE]
       ELSE chat' = [chat EXCEPT
               !.messages = Append(@, UserMessage(trim(chat.input))),
               !.input = <<>>,
               !.isLoading = TRUE,
               !.pending = Append(@, [query |-> trim(chat.input)])]
    /\ UNCHANGED <<done, raw, data, dateOut, normalized, passes, records, reports, query,
                   answer, evidence, evidenceUI, stageOut, processedFiles, context,
                   contextUI, calls, ocrRun, llmRun, inflight>>

\* StudentMediAnalyzer.handleSend after the await: the answer with its
\* evidence or the error text, and finally setIsLoading(false)
HandleSendSettle ==
    /\ chat.view = "StudentMediAnalyzer"
    /\ chat.pending # <<>>
    /\ \E result \in InvokeResults :
        \E answer_ \in {IF result.answer = Null
                        THEN <<"N", "o", "t", " ", "f", "o", "u", "n", "d", " ", "i", "n", " ", "y", "o", "u", "r", " ", "m", "e", "d", "i", "c", "a", "l", " ", "r", "e", "c", "o", "r", "d", "s", ".">>
                        ELSE result.answer} :
          chat' = [chat EXCEPT
             !.messages = Append(@,
                 IF result.rejected \/ result.error
                 THEN AssistantMessage(
                        <<"S", "o", "r", "r", "y", ",", " ", "I", " ", "e", "n", "c", "o", "u", "n", "t", "e", "r", "e", "d", " ", "a", "n", " ", "e", "r", "r", "o", "r", " ", "a", "n", "a", "l", "y", "z", "i", "n", "g", " ", "y", "o", "u", "r", " ", "r", "e", "c", "o", "r", "d", "s", ".", " ", "P", "l", "e", "a", "s", "e", " ", "t", "r", "y", " ", "a", "g", "a", "i", "n", ".">>,
                        None)
                 ELSE AssistantMessage(answer_,
                        Some(findEvidence(reports, Head(chat.pending).query, answer_)))),
             !.isLoading = FALSE,
             !.pending = Tail(@)]
    /\ UNCHANGED <<done, raw, data, dateOut, normalized, passes, records, reports, query,
                   answer, evidence, evidenceUI, stageOut, processedFiles, context,
                   contextUI, calls, ocrRun, llmRun, inflight>>

\* clearChatHistory / clearChat: the button is shown under a chat with messages
ClearChat ==
    /\ chat.messages # <<>>
    /\ chat' = [chat EXCEPT !.messages = <<>>]
    /\ UNCHANGED <<done, raw, data, dateOut, normalized, passes, records, reports, query,
                   answer, evidence, evidenceUI, stageOut, processedFiles, context,
                   contextUI, calls, ocrRun, llmRun, inflight>>

InitChat ==
    /\ done = {} /\ raw = <<>> /\ data = NoData /\ dateOut = Null
    /\ normalized = <<>> /\ passes = 0
    /\ stageOut = [corrected |-> Null, expanded |-> Null, units |-> Null,
                   documentType |-> "null"]
    /\ \E c \in {<<>>, <<1>>} :
          /\ records = [k \in 1..Len(c) |-> RecordOf(c[k])]
          /\ reports = [k \in 1..Len(c) |-> ReportOf(c[k])]
    /\ query = <<>> /\ answer = <<>>
    /\ evidence = <<>> /\ evidenceUI = <<>>
    /\ processedFiles = <<>> /\ context = Null /\ contextUI = Null
    /\ calls = <<>> /\ ocrRun = <<>> /\ llmRun = <<>> /\ inflight = <<>>
    /\ \E view \in ChatViews, k \in ApiKeys :
          /\ view = "StudentMediAnalyzer" => k = <<>>
          /\ chat = [view |-> view, apiKey |-> k, input |-> <<>>, messages |-> <<>>,
                     isLoading |-> FALSE, pending |-> <<>>]

NextChat ==
    \/ TypeInput \/ ExampleQuery \/ ClearChat
    \/ HandleSendMessage \/ HandleSendMessageSettle
    \/ HandleSend \/ HandleSendSettle

SpecChat == InitChat /\ [][NextChat]_vars
----------------------------------------------------------------------------
(* Claims *)

\* C1: every evidence item returned by findRelevantEvidence and by findEvidence has
\* a snippet that is a verbatim contiguous substring of the stored text of the
\* document it is attributed to (by type label and date, or by report id)
C1_SnippetsVerbatim ==
    /\ \A k \in 1..Len(evidence) :
          \E r \in 1..Len(records) :
             /\ TypeLabel(records[r].documentType) = evidence[k].documentType
             /\ records[r].date = evidence[k].date
             /\ IsSubstring(evidence[k].snippet, records[r].text)
    /\ \A k \in 1..Len(evidenceUI) :
          \E r \in 1..Len(reports) :
             /\ reports[r].id = evidenceUI[k].reportId
             /\ IsSubstring(evidenceUI[k].snippet, reports[r].ocr_text)

\* C1 witness: both locators have returned citations, one of them a line with
\* capitals that is cut to the snippet length and one a line that was trimmed
C1_Witness ==
    /\ done = {"findRelevantEvidence", "findEvidence"}
    /\ \E k \in 1..Len(evidence) : Len(evidence[k].snippet) = ServiceSnippetLength
    /\ \E k \in 1..Len(evidenceUI) : Len(evidenceUI[k].snippet) = ViewSnippetLength
    /\ \E k \in 1..Len(evidence) : evidence[k].snippet = <<"W", "B", "C", " ", "C", "o", "u", "n", "t", " ", "7", "0", "0", "0">>


\* the facts of the result with one of the given types
FactsOfType(types) == SelectSeq(data.extracted_facts, LAMBDA f : f.type \in types)
Extracted == "extractMedicalData" \in done

\* C2: every fact in extractMedicalData(raw).extracted_facts has a non-empty value,
\* a medication match without a dosage token included
C2_ValuesNonEmpty ==
    Extracted => \A k \in 1..Len(data.extracted_facts) :
                    Len(data.extracted_facts[k].value) > 0

\* C2 failing state: a medication fact with the empty string as its value
C2_EmptyValue ==
    /\ Extracted /\ raw = <<"T", "a", "b", ".", " ", "P", "a", "r", "a", "c", "e", "t", "a", "m", "o", "l">>
    /\ \E k \in 1..Len(data.extracted_facts) :
          /\ data.extracted_facts[k].type = "medication"
          /\ data.extracted_facts[k].value = <<>>

\* a string of digits
IsDigits(s) == Len(s) > 0 /\ \A i \in 1..Len(s) : s[i] \in Digit

\* C3: the unit of a lab/vital fact is never one of the captured numbers, and
\* 'BP: S/D mmHg' gives the fact Blood Pressure with value 'S/D' and unit 'mmHg'
C3_UnitFromDocument ==
    Extracted =>
        /\ \A k \in 1..Len(data.extracted_facts) :
              data.extracted_facts[k].type \in {"laboratory_value", "vital"}
                 => ~IsDigits(data.extracted_facts[k].unit)
        /\ \A s, d \in 1..MaxTens :
              raw = <<"B", "P", ":", " ">> \o Decimal(10 * s) \o <<"/">> \o Decimal(10 * d) \o <<" ", "m", "m", "H", "g">>
                 => \E k \in 1..Len(data.extracted_facts) :
                       /\ data.extracted_facts[k].name = <<"B", "l", "o", "o", "d", " ", "P", "r", "e", "s", "s", "u", "r", "e">>
                       /\ data.extracted_facts[k].value
                            = Decimal(10 * s) \o <<"/">> \o Decimal(10 * d)
                       /\ data.extracted_facts[k].unit = <<"m", "m", "H", "g">>

\* C3 failing state: the diastolic number is the unit of the blood pressure fact
C3_DiastolicAsUnit ==
    /\ Extracted /\ raw = <<"B", "P", ":", " ", "1", "2", "0", "/", "8", "0", " ", "m", "m", "H", "g">>
    /\ \E k \in 1..Len(data.extracted_facts) :
          /\ data.extracted_facts[k].name = <<"B", "l", "o", "o", "d", " ", "P", "r", "e", "s", "s", "u", "r", "e">>
          /\ data.extracted_facts[k].value = <<"1", "2", "0", "/", "8", "0">>
          /\ data.extracted_facts[k].unit = <<"8", "0">>

\* the value the blood group line 'g r' stands for
GroupValue(g, r) ==
    (IF g \in {<<"0">>, <<"°">>} THEN <<"O">> ELSE g)
        \o (IF r \in {<<"P", "o", "s", "i", "t", "i", "v", "e">>, <<"+">>} THEN <<"+">> ELSE <<"-">>)

\* C4: 'Blood Group: g r' with g in A, B, AB, O and r in Positive, Negative, +, -
\* yields exactly one blood_group fact, with value g+ or g- and confidence high,
\* and the misreads '0' and '°' give the fact of 'O'
C4_BloodGroupLine ==
    \A g \in {<<"A">>, <<"B">>, <<"A", "B">>, <<"O">>, <<"0">>, <<"°">>} :
       \A r \in {<<"P", "o", "s", "i", "t", "i", "v", "e">>, <<"N", "e", "g", "a", "t", "i", "v", "e">>, <<"+">>, <<"-">>} :
          (Extracted /\ raw = <<"B", "l", "o", "o", "d", " ", "G", "r", "o", "u", "p", ":", " ">> \o g \o <<" ">> \o r)
             => LET found == FactsOfType({"blood_group"})
                IN /\ Len(found) = 1
                   /\ found[1].value = GroupValue(g, r)
                   /\ found[1].confidence = "high"

\* C4 witness: the degree sign read as O with a spelled-out Rh marker
C4_Witness ==
    /\ Extracted /\ raw = <<"B", "l", "o", "o", "d", " ", "G", "r", "o", "u", "p", ":", " ", "°", " ", "N", "e", "g", "a", "t", "i", "v", "e">>
    /\ data.corrected_text = <<"B", "l", "o", "o", "d", " ", "G", "r", "o", "u", "p", ":", " ", "O", " ", "N", "e", "g", "a", "t", "i", "v", "e">>
    /\ Len(FactsOfType({"blood_group"})) = 1
    /\ FactsOfType({"blood_group"})[1].value = <<"O", "-">>

\* C5: a blood_group fact is emitted only when the text given to extractBloodGroup
\* contains the words 'blood group' or 'blood type'
C5_OnlyWithVocabulary ==
    (Extracted /\ Len(FactsOfType({"blood_group"})) > 0)
       => \/ includes(toLowerCase(data.corrected_text), <<"b", "l", "o", "o", "d", " ", "g", "r", "o", "u", "p">>)
          \/ includes(toLowerCase(data.corrected_text), <<"b", "l", "o", "o", "d", " ", "t", "y", "p", "e">>)

\* C5 failing state: prose without the vocabulary yields a blood group
C5_FactFromProse ==
    /\ Extracted /\ raw = <<"a", " ", "p", "o", "s", "i", "t", "i", "v", "e", " ", "r", "e", "s", "u", "l", "t">>
    /\ Len(FactsOfType({"blood_group"})) = 1
    /\ FactsOfType({"blood_group"})[1].value = <<"A", "+">>

\* C6: the value of every blood_group fact is one of A, B, AB, O followed by
\* '+', '-' or nothing
C6_GroupLetters ==
    Extracted => \A k \in 1..Len(data.extracted_facts) :
                    data.extracted_facts[k].type = "blood_group"
                       => data.extracted_facts[k].value
                            \in {g \o r : g \in {<<"A">>, <<"B">>, <<"A", "B">>, <<"O">>},
                                          r \in {<<"+">>, <<"-">>, <<>>}}

\* C6 failing state: the two-letter token BA is reported as a blood group
C6_TwoLetterToken ==
    /\ Extracted /\ raw = <<"B", "l", "o", "o", "d", " ", "G", "r", "o", "u", "p", ":", " ", "B", "A">>
    /\ Len(FactsOfType({"blood_group"})) = 1
    /\ FactsOfType({"blood_group"})[1].value = <<"B", "A">>

\* C7: 'D m Y' gives report_date 'Y-MM-DD' for every month name and abbreviation m,
\* MM the number of the month and DD the day padded to two digits
C7_MonthNameDates ==
    \A d \in {<<"5">>, <<"1", "5">>} : \A k \in 1..Len(MonthWords) : \A w \in {1, 2} :
       (Extracted /\ raw = d \o <<" ">> \o MonthWords[k][w] \o <<" ", "2", "0", "2", "4">>)
          => data.report_date = <<"2", "0", "2", "4", "-">> \o padStart(Decimal(k), 2) \o <<"-">> \o padStart(d, 2)

\* C7 failing state: the date of an October document is lost
C7_OctoberLost ==
    /\ Extracted /\ raw = <<"1", "5", " ", "O", "c", "t", " ", "2", "0", "2", "4">>
    /\ data.corrected_text = <<"1", "5", "0", "c", "t", " ", "2", "0", "2", "4">>
    /\ data.report_date = Null

\* the number a string of digits denotes
RECURSIVE NumberOf(_)
NumberOf(s) ==
    IF s = <<>> THEN 0
    ELSE 10 * NumberOf(SubSeq(s, 1, Len(s) - 1))
            + (CHOOSE n \in 0..9 : Decimal(n) = <<s[Len(s)]>>)

\* 'YYYY-MM-DD' with month 01..12 and day 01..31
IsIsoDate(s) ==
    /\ Len(s) = 10 /\ s[5] = "-" /\ s[8] = "-"
    /\ IsDigits(SubSeq(s, 1, 4)) /\ IsDigits(SubSeq(s, 6, 7)) /\ IsDigits(SubSeq(s, 9, 10))
    /\ NumberOf(SubSeq(s, 6, 7)) \in 1..12
    /\ NumberOf(SubSeq(s, 9, 10)) \in 1..31

\* C8: report_date is null or a valid ISO-8601 calendar date
C8_ReportDateValid ==
    Extracted => (data.report_date = Null \/ IsIsoDate(data.report_date))

\* C8 failing state: a month field of 13 is carried into the date
C8_MonthThirteen ==
    /\ Extracted /\ raw = <<"1", "5", "/", "1", "3", "/", "2", "0", "2", "4">>
    /\ data.report_date = <<"2", "0", "2", "4", "-", "1", "3", "-", "1", "5">>

\* the date written in the expression that pattern k matches in the text
DateOfPattern(text, k) ==
    LET m == match(text, DatePatterns[k][1], DatePatterns[k][2])
        word == match(Whole(text, m), MonthRe, TRUE)
    IN CASE k = 1 -> Group(text, m, 3) \o <<"-">> \o padStart(Group(text, m, 2), 2)
                        \o <<"-">> \o padStart(Group(text, m, 1), 2)
         [] k = 2 -> Group(text, m, 1) \o <<"-">> \o padStart(Group(text, m, 2), 2)
                        \o <<"-">> \o padStart(Group(text, m, 3), 2)
         [] OTHER -> Group(text, m, 2) \o <<"-">>
                        \o monthMap(Prefix(toLowerCase(Whole(Whole(text, m), word)), 3))
                        \o <<"-">> \o padStart(Group(text, m, 1), 2)

\* C9: extractDate returns the date of the first of the four patterns, in their
\* fixed order, that matches anywhere in the text; A/B/YYYY is read as day A, month B
C9_FirstPatternWins ==
    "extractDate" \in done =>
        LET matching == {k \in 1..Len(DatePatterns) :
                            match(raw, DatePatterns[k][1], DatePatterns[k][2]).ok}
        IN IF matching = {} THEN dateOut = Null
           ELSE dateOut = DateOfPattern(raw, CHOOSE k \in matching :
                                                \A j \in matching : k <= j)

\* C9 failing state: the month is taken from prose before the matched expression
C9_MonthFromProse ==
    /\ "extractDate" \in done /\ raw = <<"M", "a", "y", " ", "r", "e", "v", "i", "e", "w", ":", " ", "1", "7", " ", "J", "u", "n", " ", "2", "0", "2", "4">>
    /\ dateOut = <<"2", "0", "2", "4", "-", "0", "5", "-", "1", "7">>

\* C10: normalizing the normalizer's own output returns it unchanged
C10_Idempotent ==
    passes >= 2 => normalized = normalize(raw)

\* C10 failing state: the second pass rewrites the unit the first pass produced
C10_UnitGrows ==
    /\ passes = 2 /\ raw = <<"1", "0", " ", "s", "e", "c">>
    /\ normalize(raw) = <<"1", "0", " ", "s", "e", "c", "o", "n", "d", "s">>
    /\ normalized = <<"1", "0", " ", "s", "e", "c", "o", "n", "d", "s", "o", "n", "d", "s">>

\* the text differs from the original only where an 'o'/'O' right after a digit
\* became '0' or an 'l' right before a digit became '1'
OnlyDigitAdjacentRewrites(original, text) ==
    /\ Len(text) = Len(original)
    /\ \A i \in 1..Len(original) :
          \/ text[i] = original[i]
          \/ /\ original[i] \in {"o", "O"} /\ text[i] = "0"
             /\ i > 1 /\ original[i - 1] \in Digit
          \/ /\ original[i] \in {"l", "L"} /\ text[i] = "1"
             /\ i < Len(original) /\ original[i + 1] \in Digit

\* C11: on a text of numbers and words, correctOCRErrors changes nothing but an
\* 'o'/'O' immediately after a digit (to '0') and an 'l' immediately before a digit
\* (to '1'); a word after a number, a space or a line break apart, is unchanged
C11_DigitAdjacentOnly ==
    ("correctOCRErrors" \in done /\ raw \in DigitLetterTexts)
       => OnlyDigitAdjacentRewrites(raw, stageOut.corrected)

\* C11 failing state: the space and the capital of a word after a number are
\* replaced by a zero that joins the number
C11_WordJoinsNumber ==
    /\ "correctOCRErrors" \in done /\ raw = <<"7", "2", " ", "O", "b", "s", "e", "r", "v", "a", "t", "i", "o", "n", "s">>
    /\ stageOut.corrected = <<"7", "2", "0", "b", "s", "e", "r", "v", "a", "t", "i", "o", "n", "s">>

\* the text names a blood group or an Rh factor in words
HasBloodVocabulary(text) ==
    \E w \in {<<"b", "l", "o", "o", "d">>, <<"r", "h">>, <<"p", "o", "s", "i", "t", "i", "v", "e">>, <<"n", "e", "g", "a", "t", "i", "v", "e">>} : includes(toLowerCase(text), w)

\* C12: correctOCRErrors leaves a '0' or a degree sign as it is unless blood-group
\* or Rh-factor vocabulary stands next to it; '0-5' and '0+3' are unchanged
C12_ZeroKeptInNumbers ==
    ("correctOCRErrors" \in done /\ raw \in ZeroTexts /\ ~HasBloodVocabulary(raw))
       => stageOut.corrected = raw

\* C12 failing state: a range that starts at zero is rewritten as a blood group
C12_RangeBecomesGroup ==
    /\ "correctOCRErrors" \in done /\ raw = <<"R", "a", "n", "g", "e", ":", " ", "0", "-", "5">>
    /\ stageOut.corrected = <<"R", "a", "n", "g", "e", ":", " ", "O", " ", "N", "e", "g", "a", "t", "i", "v", "e", "5">>

\* the standard spelling of a token that is a unit variant, the token otherwise
StandardUnit(token) ==
    IF \E k \in 1..Len(UNIT_NORMALIZATIONS) : UNIT_NORMALIZATIONS[k][1] = toLowerCase(token)
    THEN UNIT_NORMALIZATIONS[CHOOSE k \in 1..Len(UNIT_NORMALIZATIONS) :
                                UNIT_NORMALIZATIONS[k][1] = toLowerCase(token)][2]
    ELSE token

RECURSIVE JoinSpaces(_)
\* tokens.join(' ')
JoinSpaces(tokens) ==
    IF Len(tokens) = 0 THEN <<>>
    ELSE IF Len(tokens) = 1 THEN tokens[1]
    ELSE tokens[1] \o <<" ">> \o JoinSpaces(Tail(tokens))

\* C13: normalizeUnits replaces a unit variant where it is a whole token and
\* nothing else; a text (tokens a space apart) without a whole-token variant is
\* returned unchanged
C13_WholeTokenUnits ==
    ("normalizeUnits" \in done /\ raw \in UnitTexts)
       => LET tokens == SplitSpaces(raw, 1)
          IN stageOut.units = JoinSpaces([k \in 1..Len(tokens) |-> StandardUnit(tokens[k])])

\* C13 failing state: a word that contains 'sec' is rewritten
C13_InsideWord ==
    /\ "normalizeUnits" \in done /\ raw = <<"s", "e", "c", "t", "i", "o", "n", " ", "3">>
    /\ stageOut.units = <<"s", "e", "c", "o", "n", "d", "s", "t", "i", "o", "n", " ", "3">>

\* the expansion of a word that is an abbreviation of the table, the word otherwise
Expansion(word) ==
    IF \E k \in 1..Len(ABBREVIATIONS) : ABBREVIATIONS[k][1] = toLowerCase(word)
    THEN ABBREVIATIONS[CHOOSE k \in 1..Len(ABBREVIATIONS) :
                          ABBREVIATIONS[k][1] = toLowerCase(word)][2]
    ELSE word

RECURSIVE ExpandWholeWords(_)
\* the text with every whole word (a maximal run of letters, digits and '_') that is
\* an abbreviation replaced by its expansion
ExpandWholeWords(text) ==
    IF Len(text) = 0 THEN <<>>
    ELSE IF text[1] \notin WordChar THEN <<text[1]>> \o ExpandWholeWords(Tail(text))
    ELSE LET ends == {n \in 1..Len(text) :
                        /\ \A i \in 1..n : text[i] \in WordChar
                        /\ (n = Len(text) \/ text[n + 1] \notin WordChar)}
             n == CHOOSE e \in ends : TRUE
         IN Expansion(SubSeq(text, 1, n)) \o ExpandWholeWords(SubSeq(text, n + 1, Len(text)))

\* C14: expandAbbreviations replaces an abbreviation exactly where it is a whole
\* word, in any letter case; a word that contains one as a substring is unchanged
C14_WholeWordAbbreviations ==
    "expandAbbreviations" \in done => stageOut.expanded = ExpandWholeWords(raw)

\* C14 witness: an abbreviation inside a longer word is left alone, while as a word
\* of its own, in capitals, it is expanded
C14_Witness ==
    /\ "expandAbbreviations" \in done /\ raw = <<"s", "p", "l", "t", "e", "r">>
    /\ stageOut.expanded = raw
    /\ expandAbbreviations(<<"T", "3", "/", "T", "4", ":", " ", "A", "L", "T">>)
          = <<"T", "r", "i", "i", "o", "d", "o", "t", "h", "y", "r", "o", "n", "i", "n", "e", "/", "T", "h", "y", "r", "o", "x", "i", "n", "e", ":", " ", "A", "l", "a", "n", "i", "n", "e", " ", "A", "m", "i", "n", "o", "t", "r", "a", "n", "s", "f", "e", "r", "a", "s", "e">>

\* a prescription-shorthand prefix standing as a token of its own, followed by
\* the given name
PrefixedName(name) ==
    WB \o Words(<<<<"t", "a", "b", "l", "e", "t">>, <<"t", "a", "b">>, <<"c", "a", "p", "s", "u", "l", "e">>, <<"c", "a", "p">>, <<"s", "y", "p">>, <<"i", "n", "j">>>>) \o WB
       \o Maybe({"."}) \o Spaces \o Lit(name)

\* C15: every medication fact is named by the word or two that follow a shorthand
\* prefix (Tab/Tablet, Cap/Capsule, Syp, Inj) standing as its own token, and no
\* fact is named by a stop word alone
C15_PrefixTokenOnly ==
    Extracted =>
        \A k \in 1..Len(data.extracted_facts) :
           data.extracted_facts[k].type = "medication"
              => /\ match(data.corrected_text,
                          PrefixedName(data.extracted_facts[k].name), TRUE).ok
                 /\ toLowerCase(data.extracted_facts[k].name) \notin MedStopWords

\* C15 failing state: the word 'stable' yields a medication named 'le'
C15_OrdinaryWord ==
    /\ Extracted /\ raw = <<"P", "a", "t", "i", "e", "n", "t", " ", "i", "s", " ", "s", "t", "a", "b", "l", "e">>
    /\ Len(FactsOfType({"medication"})) = 1
    /\ FactsOfType({"medication"})[1].name = <<"l", "e">>

\* the place of a fact among the recognizers: the blood group, then the entries of
\* the lab/vital table in their order, then the medications
RecognizerRank(fact) ==
    CASE fact.type = "blood_group" -> 0
      [] fact.type = "medication" -> Len(labPatterns) + 1
      [] OTHER -> CHOOSE k \in 1..Len(labPatterns) : labPatterns[k][2] = fact.name

\* C20: in extracted_facts the blood_group fact (at most one) comes first, then the
\* lab/vital facts in the order of the recognizer table, then the medications
C20_FactOrder ==
    Extracted =>
        /\ Len(FactsOfType({"blood_group"})) <= 1
        /\ \A j, k \in 1..Len(data.extracted_facts) :
              j < k => /\ RecognizerRank(data.extracted_facts[j])
                            <= RecognizerRank(data.extracted_facts[k])
                       /\ data.extracted_facts[k].type # "medication"
                             => RecognizerRank(data.extracted_facts[j])
                                   < RecognizerRank(data.extracted_facts[k])

\* C20 witness: a document that lists its medication first and its blood group
\* last yields the facts in recognizer order
C20_Witness ==
    /\ Extracted
    /\ raw = <<"T", "a", "b", ".", " ", "P", "a", "r", "a", "c", "e", "t", "a", "m", "o", "l", " ", "5", "0", "0", "m", "g", "\n", "P", "u", "l", "s", "e", " ", "7", "2", " ", "b", "p", "m", ",", " ", "H", "e", "m", "o", "g", "l", "o", "b", "i", "n", " ", "1", "3", ".", "5", " ", "g", "/", "d", "L", ",", " ", "B", "l", "o", "o", "d", " ", "G", "r", "o", "u", "p", " ", "A", "B", " ", "n", "e", "g">>
    /\ Len(data.extracted_facts) = 4
    /\ data.extracted_facts[1].value = <<"A", "B", "-">>
    /\ data.extracted_facts[2].name = <<"H", "e", "m", "o", "g", "l", "o", "b", "i", "n">>
    /\ data.extracted_facts[3].name = <<"P", "u", "l", "s", "e", " ", "R", "a", "t", "e">>
    /\ data.extracted_facts[4].name = <<"P", "a", "r", "a", "c", "e", "t", "a", "m", "o", "l">>

\* some keyword of the set occurs in the text, in any letter case
HasKeyword(text, keywords) == \E w \in keywords : IsSubstring(w, toLowerCase(text))

\* C16: detectDocumentType returns the first category of the ordered list Blood
\* Report, Prescription, Scan, Receipt whose keywords are present, in any letter
\* case, and Unknown when none is
C16_DecisionList ==
    "detectDocumentType" \in done
       => stageOut.documentType
               = (IF HasKeyword(raw, {<<"b", "l", "o", "o", "d">>}) /\ HasKeyword(raw, {<<"r", "e", "p", "o", "r", "t">>, <<"t", "e", "s", "t">>})
                  THEN "Blood Report"
                  ELSE IF HasKeyword(raw, {<<"p", "r", "e", "s", "c", "r", "i", "p", "t", "i", "o", "n">>, <<"r", "x">>, <<"t", "a", "b", ".">>, <<"c", "a", "p", ".">>})
                  THEN "Prescription"
                  ELSE IF HasKeyword(raw, {<<"s", "c", "a", "n">>, <<"x", "-", "r", "a", "y">>, <<"m", "r", "i">>, <<"c", "t">>, <<"u", "l", "t", "r", "a", "s", "o", "u", "n", "d">>})
                  THEN "Scan"
                  ELSE IF HasKeyword(raw, {<<"r", "e", "c", "e", "i", "p", "t">>, <<"i", "n", "v", "o", "i", "c", "e">>, <<"b", "i", "l", "l">>, <<"p", "a", "y", "m", "e", "n", "t">>})
                  THEN "Receipt"
                  ELSE "Unknown")

\* C16 witness: prescription, scan and receipt keywords together, without the
\* blood report pair, give Prescription
C16_Witness ==
    /\ "detectDocumentType" \in done
    /\ raw = <<"B", "l", "o", "o", "d", " ", "n", "o", "t", "e", " ", "R", "x", " ", "M", "R", "I", " ", "B", "i", "l", "l">>
    /\ stageOut.documentType = "Prescription"

\* the whitespace-delimited tokens of a text
Tokens(text) ==
    {SubSeq(text, p[1], p[2]) :
        p \in {q \in (1..Len(text)) \X (1..Len(text)) :
                  /\ q[1] <= q[2]
                  /\ \A i \in q[1]..q[2] : text[i] \notin Space
                  /\ (q[1] = 1 \/ text[q[1] - 1] \in Space)
                  /\ (q[2] = Len(text) \/ text[q[2] + 1] \in Space)}}

\* the candidate rule: the trimmed line is longer than 10 characters and its
\* lowercase form contains a lowercase token, longer than 3, of question or answer
Qualifies(line) ==
    /\ Len(trim(line)) > 10
    /\ \E t \in Tokens(toLowerCase(query)) \cup Tokens(toLowerCase(answer)) :
          Len(t) > 3 /\ IsSubstring(t, toLowerCase(line))

\* the qualifying lines of a text, in line order
QualifyingLines(text) == SelectSeq(SplitLines(text, 1), Qualifies)

\* C17: a line is cited if and only if it qualifies under the candidate rule (as
\* long as the cap is not reached); when no line qualifies the list is empty
C17_CandidateRule ==
    /\ "findRelevantEvidence" \in done =>
          /\ \A k \in 1..Len(evidence) :
                \E r \in 1..Len(records) :
                   /\ records[r].date = evidence[k].date
                   /\ \E j \in 1..Len(QualifyingLines(records[r].text)) :
                         evidence[k].snippet
                            = Prefix(trim(QualifyingLines(records[r].text)[j]), 200)
          /\ Len(evidence) < 5 =>
                \A r \in 1..Len(records) :
                   \A j \in 1..Len(QualifyingLines(records[r].text)) :
                      \E k \in 1..Len(evidence) :
                         /\ records[r].date = evidence[k].date
                         /\ evidence[k].snippet
                              = Prefix(trim(QualifyingLines(records[r].text)[j]), 200)
    /\ "findEvidence" \in done =>
          /\ \A k \in 1..Len(evidenceUI) :
                \E r \in 1..Len(reports) :
                   /\ reports[r].id = evidenceUI[k].reportId
                   /\ \E j \in 1..Len(QualifyingLines(reports[r].ocr_text)) :
                         evidenceUI[k].snippet
                            = Prefix(trim(QualifyingLines(reports[r].ocr_text)[j]), 150)
          /\ Len(evidenceUI) < 3 =>
                \A r \in 1..Len(reports) :
                   \A j \in 1..Len(QualifyingLines(reports[r].ocr_text)) :
                      \E k \in 1..Len(evidenceUI) :
                         /\ reports[r].id = evidenceUI[k].reportId
                         /\ evidenceUI[k].snippet
                              = Prefix(trim(QualifyingLines(reports[r].ocr_text)[j]), 150)

\* C17 witness: of the lines of one document the two that qualify are cited; the
\* line 'HEMOGLOBIN' holds a term but is too short, the blood pressure line is
\* long enough but holds no term
C17_Witness ==
    /\ done = {"findRelevantEvidence", "findEvidence"}
    /\ Len(records) = 1 /\ records[1].text = DocTexts[2]
    /\ query = <<"W", "h", "a", "t", " ", "i", "s", " ", "m", "y", " ", "H", "e", "m", "o", "g", "l", "o", "b", "i", "n", " ", " ", "c", "o", "u", "n", "t", "?">>
    /\ Len(evidence) = 2 /\ Len(evidenceUI) = 2
    /\ evidence[2].snippet = <<"H", "e", "m", "o", "g", "l", "o", "b", "i", "n", " ", "l", "e", "v", "e", "l", " ", "n", "o", "r", "m", "a", "l">>

RECURSIVE CitedLines(_, _)
\* <<document index, line>> for the qualifying lines of the documents from
\* document r on, in corpus order and line order
CitedLines(texts, r) ==
    IF r > Len(texts) THEN <<>>
    ELSE [j \in 1..Len(QualifyingLines(texts[r])) |-> <<r, QualifyingLines(texts[r])[j]>>]
            \o CitedLines(texts, r + 1)

\* C18: the list holds at most cap items (5 and 3) and is the first cap-many
\* qualifying lines in corpus order and line order
C18_FirstUpToCap ==
    /\ "findRelevantEvidence" \in done =>
          LET all == CitedLines([r \in 1..Len(records) |-> records[r].text], 1)
          IN /\ Len(evidence) <= 5
             /\ Len(evidence) = IF Len(all) < 5 THEN Len(all) ELSE 5
             /\ \A k \in 1..Len(evidence) :
                   /\ evidence[k].date = records[all[k][1]].date
                   /\ evidence[k].snippet = Prefix(trim(all[k][2]), 200)
    /\ "findEvidence" \in done =>
          LET all == CitedLines([r \in 1..Len(reports) |-> reports[r].ocr_text], 1)
          IN /\ Len(evidenceUI) <= 3
             /\ Len(evidenceUI) = IF Len(all) < 3 THEN Len(all) ELSE 3
             /\ \A k \in 1..Len(evidenceUI) :
                   /\ evidenceUI[k].reportId = reports[all[k][1]].id
                   /\ evidenceUI[k].snippet = Prefix(trim(all[k][2]), 150)

\* C18 witness: six lines qualify; the first five are cited by the service and
\* the first three by the view
C18_Witness ==
    /\ done = {"findRelevantEvidence", "findEvidence"}
    /\ Len(CitedLines([r \in 1..Len(records) |-> records[r].text], 1)) = 6
    /\ Len(evidence) = 5 /\ Len(evidenceUI) = 3
    /\ evidence[4].snippet = <<"T", "o", "t", "a", "l", " ", "c", "o", "u", "n", "t", " ", "o", "f", " ", "h", "e", "m", "o", "g", "l", "o", "b", "i", "n", " ", "t", "e", "s", "t", "s", ":", " ", "3">>

\* the rows with the text of each document replaced by the corrected_text
\* extractMedicalData produced for it
WithCorrectedText(reps) ==
    [i \in 1..Len(reps) |->
        [reps[i] EXCEPT !.ocr_text = reps[i].extracted_data.corrected_text]]

\* C19: the text of a document in the context of the LLM is the corrected_text of
\* extractMedicalData for that document, on the path of UploadPage and
\* buildMedicalContext and on the path of StudentRecords and buildContext
C19_CorrectedTextInContext ==
    /\ context # Null =>
          \E n \in 0..Len(records) :
             context = buildMedicalContext(
                          [i \in 1..n |->
                              [records[i] EXCEPT
                                  !.text = records[i].extractedData.corrected_text]])
    /\ contextUI # Null =>
          \E n \in 0..Len(reports) :
             contextUI = buildContext(WithCorrectedText(SubSeq(reports, 1, n)))

\* C19 failure: the context of StudentMediAnalyzer holds the text as the OCR
\* engine read it, 'Hb 13.5 g/dl', and not the corrected text
C19_RawTextInContext ==
    /\ Len(reports) = 1
    /\ reports[1].ocr_text = <<"H", "b", " ", "1", "3", ".", "5", " ", "g", "/", "d", "l">>
    /\ reports[1].extracted_data.corrected_text # <<"H", "b", " ", "1", "3", ".", "5", " ", "g", "/", "d", "l">>
    /\ contextUI = buildContext(reports)
    /\ IsSubstring(<<"\n">> \o <<"H", "b", " ", "1", "3", ".", "5", " ", "g", "/", "d", "l">> \o <<"\n">>, contextUI)
    /\ ~IsSubstring(<<"\n">> \o reports[1].extracted_data.corrected_text \o <<"\n">>,
                    contextUI)

\* C21: every blood_group, laboratory_value and vital fact has confidence 'high',
\* every medication fact has confidence 'medium', and no fact has confidence 'low'
C21_ConfidenceByType ==
    "extractMedicalData" \in done =>
        \A k \in 1..Len(data.extracted_facts) :
            LET f == data.extracted_facts[k]
            IN /\ f.type \in {"blood_group", "laboratory_value", "vital"}
                     => f.confidence = "high"
               /\ f.type = "medication" => f.confidence = "medium"
               /\ f.confidence # "low"

\* C21 witness: one document yields a fact of each of the four types
C21_Witness ==
    /\ "extractMedicalData" \in done
    /\ \A t \in {"blood_group", "laboratory_value", "vital", "medication"} :
          \E k \in 1..Len(data.extracted_facts) :
             /\ data.extracted_facts[k].type = t
             /\ data.extracted_facts[k].confidence
                  = IF t = "medication" THEN "medium" ELSE "high"

\* no recognizer, category keyword or date pattern matches the text
NoPatternMatches(text) ==
    /\ \A k \in 1..Len(BloodGroupPatterns) :
          ~match(text, BloodGroupPatterns[k][1], BloodGroupPatterns[k][2]).ok
    /\ \A k \in 1..Len(labPatterns) : ~match(text, labPatterns[k][1], TRUE).ok
    /\ \A k \in 1..Len(medPatterns) : ~match(text, medPatterns[k], TRUE).ok
    /\ \A k \in 1..Len(DatePatterns) :
          ~match(text, DatePatterns[k][1], DatePatterns[k][2]).ok
    /\ ~(HasKeyword(text, {<<"b", "l", "o", "o", "d">>}) /\ HasKeyword(text, {<<"r", "e", "p", "o", "r", "t">>, <<"t", "e", "s", "t">>}))
    /\ ~HasKeyword(text, {<<"p", "r", "e", "s", "c", "r", "i", "p", "t", "i", "o", "n">>, <<"r", "x">>, <<"t", "a", "b", ".">>, <<"c", "a", "p", ".">>, <<"s", "c", "a", "n">>, <<"x", "-", "r", "a", "y">>,
                          <<"m", "r", "i">>, <<"c", "t">>, <<"u", "l", "t", "r", "a", "s", "o", "u", "n", "d">>, <<"r", "e", "c", "e", "i", "p", "t">>, <<"i", "n", "v", "o", "i", "c", "e">>, <<"b", "i", "l", "l">>,
                          <<"p", "a", "y", "m", "e", "n", "t">>})

\* every capture group the extractor calls a method on (match[1] in
\* extractBloodGroup and in extractMedications) is defined wherever its pattern
\* matches, so no call throws
GroupsDefined(text) ==
    /\ \A k \in 1..Len(BloodGroupPatterns) :
          LET m == match(text, BloodGroupPatterns[k][1], BloodGroupPatterns[k][2])
          IN m.ok => m.caps[1][1] # 0
    /\ \A k \in 1..Len(medPatterns) : \A p \in 1..Len(text) :
          LET m == Match(medPatterns[k], text, p, NoGroups, TRUE)
          IN m.ok => m.caps[1][1] # 0 /\ m.end > p

CanonicalName(abbreviation) ==
    CASE toLowerCase(abbreviation) \in {<<"h", "b">>, <<"h", "g", "b">>} -> <<"H", "e", "m", "o", "g", "l", "o", "b", "i", "n">>
      [] toLowerCase(abbreviation) = <<"w", "b", "c">> -> <<"W", "h", "i", "t", "e", " ", "B", "l", "o", "o", "d", " ", "C", "e", "l", "l", " ", "C", "o", "u", "n", "t">>
      [] toLowerCase(abbreviation) = <<"r", "b", "c">> -> <<"R", "e", "d", " ", "B", "l", "o", "o", "d", " ", "C", "e", "l", "l", " ", "C", "o", "u", "n", "t">>
      [] toLowerCase(abbreviation) = <<"p", "l", "t">> -> <<"P", "l", "a", "t", "e", "l", "e", "t", " ", "C", "o", "u", "n", "t">>
      [] toLowerCase(abbreviation) = <<"e", "s", "r">> -> <<"E", "S", "R">>
      [] toLowerCase(abbreviation) = <<"h", "b", "a", "1", "c">> -> <<"H", "b", "A", "1", "c">>
      [] toLowerCase(abbreviation) = <<"f", "b", "s">> -> <<"B", "l", "o", "o", "d", " ", "S", "u", "g", "a", "r">>
      [] toLowerCase(abbreviation) = <<"b", "p">> -> <<"B", "l", "o", "o", "d", " ", "P", "r", "e", "s", "s", "u", "r", "e">>

\* C24: extractMedicalData('<abbreviation>: <number>') yields a fact with the
\* canonical name of the test and the number as its value, and no fact that names
\* another test (blood pressure with a reading S/D, the others with a number)
C24_AbbreviationRecognised ==
    "extractMedicalData" \in done =>
        \A k \in 1..Len(AbbreviatedNames) : \A n \in {<<"1", "3", ".", "5">>, <<"7", "0", "0", "0">>, <<"1", "2", "0", "/", "8", "0">>} :
            /\ raw = AbbreviatedNames[k] \o <<":", " ">> \o n
            /\ (AbbreviatedNames[k] = <<"B", "P">>) = (n = <<"1", "2", "0", "/", "8", "0">>)
            => /\ \E i \in 1..Len(data.extracted_facts) :
                     /\ data.extracted_facts[i].name = CanonicalName(AbbreviatedNames[k])
                     /\ data.extracted_facts[i].value = n
               /\ \A i \in 1..Len(data.extracted_facts) :
                     data.extracted_facts[i].name = CanonicalName(AbbreviatedNames[k])

\* C24 failure: 'PLT: 7000' becomes 'Platelet Count: 7000', which the platelet
\* recognizer does not match, and no fact is returned
C24_PlateletLost ==
    /\ "extractMedicalData" \in done
    /\ raw = <<"P", "L", "T", ":", " ", "7", "0", "0", "0">>
    /\ data.corrected_text = <<"P", "l", "a", "t", "e", "l", "e", "t", " ", "C", "o", "u", "n", "t", ":", " ", "7", "0", "0", "0">>
    /\ data.extracted_facts = <<>>

\* C25: extractMedicalData gives a text the category detectDocumentType gives the
\* text as written; a text whose only keyword is the word MRI or CT is a Scan
C25_SameCategory ==
    {"extractMedicalData", "detectDocumentType"} \subseteq done =>
        /\ data.document_type = stageOut.documentType
        /\ raw \in {<<"M", "R", "I", " ", "b", "r", "a", "i", "n">>, <<"C", "T", " ", "c", "h", "e", "s", "t">>} => data.document_type = "Scan"

\* C25 failure: 'MRI brain' as written is a Scan; extractMedicalData expands MRI
\* to 'Magnetic Resonance Imaging' and returns Unknown
C25_ScanLost ==
    /\ {"extractMedicalData", "detectDocumentType"} \subseteq done
    /\ raw = <<"M", "R", "I", " ", "b", "r", "a", "i", "n">>
    /\ stageOut.documentType = "Scan"
    /\ data.corrected_text = <<"M", "a", "g", "n", "e", "t", "i", "c", " ", "R", "e", "s", "o", "n", "a", "n", "c", "e", " ", "I", "m", "a", "g", "i", "n", "g", " ", "b", "r", "a", "i", "n">>
    /\ data.document_type = "Unknown"

\* C26: when extractDate resolves the date through a month-name pattern, the
\* month of the date is the month named in the matched expression, whatever
\* text precedes the expression
C26_MonthOfExpression ==
    "extractDate" \in done =>
        \A k \in {3, 4} :
            /\ match(raw, DatePatterns[k][1], DatePatterns[k][2]).ok
            /\ \A j \in 1..(k - 1) : ~match(raw, DatePatterns[j][1], DatePatterns[j][2]).ok
            => /\ dateOut # Null
               /\ SubSeq(dateOut, 6, 7) = SubSeq(DateOfPattern(raw, k), 6, 7)

\* C26 failing state: 'Summary' holds the letters 'mar', and the date of June
\* is returned as a date of March
C26_MonthFromSummary ==
    /\ "extractDate" \in done /\ raw = <<"S", "u", "m", "m", "a", "r", "y", " ", "1", "7", " ", "J", "u", "n", " ", "2", "0", "2", "4">>
    /\ dateOut = <<"2", "0", "2", "4", "-", "0", "3", "-", "1", "7">>

\* C27: the text, the extracted data and the error of every entry of the queue,
\* and the text of every record saved from it, are those of the entry's own
\* image, whatever the order of drops, OCR results, removeFile and saveRecord
C27_OwnResultOnly ==
    /\ \A k \in 1..Len(processedFiles) :
          LET entry == processedFiles[k]
          IN /\ entry.text \in {<<>>, normalize(OcrTextOf(entry.fileName))}
             /\ entry.error \in {<<>>, <<"O", "C", "R", " ", "f", "a", "i", "l", "e", "d", ":", " ">> \o entry.fileName}
    /\ \A k \in 1..Len(records) :
          records[k].text = normalize(OcrTextOf(records[k].fileName))

\* C27 failure: a.png and b.png are dropped, the entry of a.png is removed while
\* its OCR runs, and the text of a.png is written to the entry of b.png
C27_TextOfAnotherFile ==
    /\ Len(processedFiles) = 1
    /\ processedFiles[1].fileName = <<"b", ".", "p", "n", "g">>
    /\ processedFiles[1].text = normalize(OcrTextOf(<<"a", ".", "p", "n", "g">>))
    /\ \E t \in inflight : t.fileName = <<"b", ".", "p", "n", "g">> /\ t.pending

\* C29: queryMedicalBot sends a request only with a key and at least one
\* record; with an empty key it throws and sends nothing; with no records it
\* returns the fixed answer with an empty evidence list and sends nothing; on
\* a response that is not OK it throws and gives no answer and no evidence;
\* evidence is computed only after an OK response
C29_RequestOnlyWithKeyAndRecords ==
    /\ Len(llmRun.requests) <= 1
    /\ llmRun.requests # <<>> => llmRun.apiKey # <<>> /\ Len(records) > 0
    /\ llmRun.pc = "settled" =>
          LET r == llmRun.result
          IN /\ r.requests = llmRun.requests
             /\ llmRun.apiKey = <<>> =>
                   /\ r.threw /\ r.error # Null /\ r.requests = <<>>
                   /\ r.answer = Null /\ r.evidence = None
             /\ llmRun.apiKey # <<>> /\ Len(records) = 0 =>
                   /\ ~r.threw /\ r.requests = <<>>
                   /\ r.answer = NoRecordsAnswer /\ r.evidence = Some(<<>>)
             /\ llmRun.requests # <<>> =>
                   /\ ~Ok(llmRun.response) =>
                         /\ r.threw /\ r.error # Null
                         /\ r.answer = Null /\ r.evidence = None
                   /\ r.evidence # None =>
                         /\ Ok(llmRun.response) /\ ~r.threw
                         /\ r.evidence =
                               Some(findRelevantEvidence(records, llmRun.userQuery,
                                                         r.answer))

\* C29 case: a request went out and the answer was status 429
C29_Witness ==
    /\ llmRun.pc = "settled"
    /\ llmRun.requests # <<>>
    /\ llmRun.response.status = 429
    /\ llmRun.result.threw
    /\ llmRun.result.evidence = None

\* C29 case: a call with a key and no records has returned the fixed answer
C29_NoRecords ==
    /\ llmRun.pc = "settled"
    /\ llmRun.apiKey # <<>>
    /\ records = <<>>
    /\ llmRun.requests = <<>>
    /\ llmRun.result.answer = NoRecordsAnswer

\* C29 case: an OK response with evidence found
C29_Evidence ==
    /\ llmRun.pc = "settled"
    /\ llmRun.requests # <<>>
    /\ llmRun.result.evidence # None
    /\ llmRun.result.evidence # Some(<<>>)

\* C30: once the worker of a performOCR call exists, worker.terminate() is
\* called on every way out of the try block, it is called before the promise
\* of the call settles, and it is called once; without a worker it is not
\* called
C30_TerminateOnEveryPath ==
    /\ ocrRun.terminateCalls <= 1
    /\ ~ocrRun.worker => ocrRun.terminateCalls = 0
    /\ ocrRun.pc = "settled" /\ ocrRun.worker => ocrRun.terminateCalls = 1
    /\ ocrRun.terminateCalls = 1 => ocrRun.pc \in {"terminate", "settled"}
    /\ ocrRun.terminated => ocrRun.terminateCalls = 1

\* C30 case: recognition failed, the worker was terminated and the call rejected
C30_Witness ==
    /\ ocrRun.pc = "settled"
    /\ ocrRun.worker
    /\ ocrRun.outcome = ThrowOf(<<"r", "e", "c", "o", "g", "n", "i", "t", "i", "o", "n", " ", "f", "a", "i", "l", "e", "d">>)
    /\ ocrRun.terminateCalls = 1

\* C30 case: recognition succeeded, the worker was terminated and the call
\* resolved with the trimmed text
C30_Resolved ==
    /\ ocrRun.pc = "settled"
    /\ ~ocrRun.outcome.threw
    /\ ocrRun.outcome.value = Some([text |-> <<"H", "b", " ", "1", "3", ".", "5", " ", "g", "/", "d", "l">>, confidence |-> 87])
    /\ ocrRun.terminated

\* the loading flag is set exactly while a request is awaited, and at most
\* one request is awaited
ChatFlag ==
    /\ Len(chat.pending) <= 1
    /\ chat.isLoading <=> chat.pending # <<>>

\* what one step does to the messages: a send that goes out appends the user
\* message alone and raises the flag; a settle appends one assistant message
\* and lowers it; the send without reports appends the user message and the
\* fixed assistant message and leaves the flag down; anything else that
\* changes the messages empties them
ChatStep ==
    /\ Len(chat'.pending) > Len(chat.pending) =>
          /\ ~chat.isLoading /\ chat'.isLoading
          /\ chat'.messages = Append(chat.messages, UserMessage(trim(chat.input)))
    /\ Len(chat'.pending) < Len(chat.pending) =>
          /\ chat.isLoading /\ ~chat'.isLoading
          /\ Len(chat'.messages) = Len(chat.messages) + 1
          /\ SubSeq(chat'.messages, 1, Len(chat.messages)) = chat.messages
          /\ chat'.messages[Len(chat'.messages)].role = "assistant"
    /\ chat'.pending = chat.pending /\ chat'.messages # chat.messages =>
          \/ chat'.messages = <<>>
          \/ /\ chat.view = "StudentMediAnalyzer" /\ Len(reports) = 0
             /\ ~chat.isLoading /\ ~chat'.isLoading
             /\ chat'.messages =
                   chat.messages \o <<UserMessage(trim(chat.input)), NoReportsMessage>>

\* C28: in both chat views an accepted send appends one user message and its
\* settle (success, failure, no records) one assistant message after it; the
\* loading flag is up while the request is awaited and down after every
\* settle; no second request goes out while it is up
C28_OneReplyPerSend == []ChatFlag /\ [][ChatStep]_vars

\* C28 case: ChatPage has answered a question with an error text and the flag
\* is down again
C28_Witness ==
    /\ chat.view = "ChatPage"
    /\ Len(chat.messages) = 2
    /\ chat.messages[1].role = "user"
    /\ chat.messages[2].role = "assistant"
    /\ chat.messages[2].evidence = None
    /\ records # <<>>
    /\ ~chat.isLoading /\ chat.pending = <<>>

\* C28 case: StudentMediAnalyzer awaits a reply, the chat was cleared and an
\* example query is in the input box: a send now is refused for isLoading
C28_SendWhileLoading ==
    /\ chat.view = "StudentMediAnalyzer"
    /\ chat.isLoading /\ Len(chat.pending) = 1
    /\ trim(chat.input) # <<>>

\* C28 case: StudentMediAnalyzer without reports has answered at once
C28_NoReports ==
    /\ chat.view = "StudentMediAnalyzer"
    /\ Len(chat.messages) = 2
    /\ chat.messages[2] = NoReportsMessage
    /\ ~chat.isLoading
====
